---- MODULE Spec2Model ----
(***************************************************************************)
(* A model of four parts of geomstats:                                     *)
(*   - geometry/flat_riemannian_metric.py  FlatRiemannianMetric            *)
(*   - geometry/group_action.py            permutation group actions       *)
(*   - learning/geometric_median.py        WeiszfeldAlgorithm              *)
(*   - learning/aac.py                     AACFrechet, AACGPC,             *)
(*                                         AACRegression                   *)
(* Each part has its own specification (SpecFlat, SpecPerm, SpecMedian,    *)
(* SpecAAC, SpecMetric) over the variables of that part; the variables of  *)
(* the other parts stay at their initial values.  SpecEstimators has the   *)
(* four estimators, one of them in use at a time.                          *)
(***************************************************************************)
EXTENDS Integers, Sequences, FiniteSets, TLC

(***************************************************************************)
(* Bounds of the model.                                                    *)
(***************************************************************************)
\* Bits of the significand of the modelled binary floating-point format.
MantBits == 2
\* Number of binades above the smallest one: the largest finite float is
\* (2^MantBits - 1) * 2^ExpRange.
ExpRange == 4
\* Components of a point of the vector space the flat metric lives on.
Dim == 2
\* Coordinates of the input points and tangent vectors lie in -MaxIn..MaxIn.
MaxIn == 3
\* Length of a permutation vector; the matrices acted on are N x N.
N == 3
\* Largest number of permutation vectors in a batch.
MaxBatch == 2
\* A matrix acted on has at most MaxNonzero nonzero entries.
MaxNonzero == 2
\* Bits of the fraction of a float: 1.0 is the float 2^FracBits.
FracBits == 1
\* A dataset of the median estimator holds 1..MaxSamples points.
MaxSamples == 2
\* The points of a dataset of the median estimator are 0.0, 1.0, ..., MaxCoord.
MaxCoord == 2
\* max_iter of an estimator lies in 0..MaxIter.
MaxIter == 2
\* fit is called at most MaxFits times on an alignment-based estimator.
MaxFits == 2
\* A path returned by geodesic is called with 0..MaxTimes times.
MaxTimes == 2

(***************************************************************************)
(* State.                                                                  *)
(***************************************************************************)
VARIABLES
    \* FlatRiemannianMetric
    call,    \* the call made on the metric: [op, base_point, arg, arg2]
    ret,     \* what the call did: [raised, kind, value]
    \* group actions
    gcall,   \* the call made on a group action: [op, cls, group_elem, point],
             \* and in after its argument group_elem as the call left it
    gret,    \* the array the call returned
    \* WeiszfeldAlgorithm
    weiszfeld,  \* the attributes of the estimator object
    wfit,       \* the frame of its fit call: [pc, X, weights, current_median, iter]
    si,         \* the last call of single_iteration: arguments, value, operations
    \* AACFrechet, AACGPC, AACRegression
    aac,        \* the attributes of the estimator object
    dataset,    \* the samples X its fit is called with
    afit,       \* the frame of its fit call, and in signals the values
                \* its loop assigned to error, in order
    rng,        \* the number of draws made from the global random generator
    results,    \* the outcome of every fit call that has ended, in order
    \* FlatRiemannianMetric as an object, on arrays of any shape
    metric,     \* the attributes of the metric object, or how __init__ raised
    heap,       \* the arrays the metric and its caller hold references to
    mcall,      \* the last method call on the metric and its outcome
    closure     \* the path the last geodesic call returned: the variables it
                \* closes over (frame) and the arguments of that call (given)

varsFlat == <<call, ret>>

varsPerm == <<gcall, gret>>

varsMedian == <<weiszfeld, wfit, si>>

varsAAC == <<aac, dataset, afit, rng, results>>

varsMetric == <<metric, heap, mcall, closure>>

vars == <<call, ret, gcall, gret, weiszfeld, wfit, si,
          aac, dataset, afit, rng, results,
          metric, heap, mcall, closure>>

(***************************************************************************)
(* Optional values: Python's None is the empty tuple, a value x is <<x>>   *)
(* where the value is a number; a point (a non-empty tuple) stands for     *)
(* itself.                                                                 *)
(***************************************************************************)
None == <<>>

Some(x) == <<x>>

(***************************************************************************)
(* Array elements are binary floating-point numbers.  A finite float is    *)
(* modelled by an integer, its value in units of the smallest spacing of   *)
(* the format; the representable ones are m * 2^e with m < 2^MantBits.     *)
(* Every arithmetic operation rounds its exact result to the nearest       *)
(* representable value, ties to the even significand, and overflows to an  *)
(* infinity.                                                               *)
(***************************************************************************)
FMax == ((2 ^ MantBits) - 1) * (2 ^ ExpRange)

PINF == 4 * FMax

NINF == 0 - PINF

NAN == (4 * FMax) + 1

IsFinite(x) == x \notin {PINF, NINF, NAN}

RECURSIVE Quantum(_)
\* The spacing of the floats around the magnitude x >= 0.
Quantum(x) == IF x < 2 ^ MantBits THEN 1 ELSE 2 * Quantum(x \div 2)

\* The float nearest to the exact quotient n / d, for n >= 0 and d > 0.
RoundNat(n, d) ==
    LET q    == Quantum(n \div d)
        unit == d * q
        m    == n \div unit
        r    == n % unit
        lo   == m * q
        hi   == (m + 1) * q
        res  == IF 2 * r < unit THEN lo
                ELSE IF 2 * r > unit THEN hi
                ELSE IF m % 2 = 0 THEN lo ELSE hi
    IN  IF res > FMax THEN PINF ELSE res

\* The float nearest to the exact quotient n / d, for d > 0.
Round(n, d) == IF n >= 0 THEN RoundNat(n, d) ELSE 0 - RoundNat(0 - n, d)

IsFloat(x) == IsFinite(x) /\ Round(x, 1) = x

FNeg(a) == IF a = NAN THEN NAN ELSE 0 - a

\* a + b in floating point.
FAdd(a, b) ==
    IF a = NAN \/ b = NAN THEN NAN
    ELSE IF a = PINF THEN (IF b = NINF THEN NAN ELSE PINF)
    ELSE IF a = NINF THEN (IF b = PINF THEN NAN ELSE NINF)
    ELSE IF b \in {PINF, NINF} THEN b
    ELSE Round(a + b, 1)

\* a - b in floating point.
FSub(a, b) == FAdd(a, FNeg(b))

\* 1.0
One == 2 ^ FracBits

Sign(x) == IF x > 0 THEN 1 ELSE IF x < 0 THEN 0 - 1 ELSE 0

Abs(x) == IF x < 0 THEN 0 - x ELSE x

FAbs(a) == IF a = NAN THEN NAN ELSE Abs(a)

\* a * b in floating point.
FMul(a, b) ==
    IF a = NAN \/ b = NAN THEN NAN
    ELSE IF ~IsFinite(a) \/ ~IsFinite(b)
    THEN (IF a = 0 \/ b = 0 THEN NAN ELSE Sign(a) * Sign(b) * PINF)
    ELSE Round(a * b, One)

\* a / b in floating point: a nonzero number over zero is an infinity, zero
\* over zero is not a number (numpy warns and goes on).
FDiv(a, b) ==
    IF a = NAN \/ b = NAN THEN NAN
    ELSE IF ~IsFinite(a)
    THEN (IF ~IsFinite(b) THEN NAN
          ELSE IF b = 0 THEN a ELSE Sign(a) * Sign(b) * PINF)
    ELSE IF ~IsFinite(b) THEN 0
    ELSE IF b = 0 THEN (IF a = 0 THEN NAN ELSE Sign(a) * PINF)
    ELSE Round(Sign(b) * a * One, Abs(b))

RECURSIVE FSumTo(_, _)
\* gs.sum of the first k elements of a vector, added from the left.
FSumTo(v, k) == IF k = 0 THEN 0 ELSE FAdd(FSumTo(v, k - 1), v[k])

\* gs.sum of a vector.
FSum(v) == FSumTo(v, Len(v))

\* The exact sum is a float: the addition does not round.
ExactAdd(a, b) == IsFinite(a) /\ IsFinite(b) /\ IsFloat(a + b)

\* The floats an input coordinate is drawn from.
InVals == {x \in (0 - MaxIn)..MaxIn : IsFloat(x)}

\* Points and tangent vectors of the space: arrays of shape (Dim,).
Vec == [1..Dim -> InVals]

OptVec == Vec \cup {None}

\* The <<end_point, initial_tangent_vec>> pairs geodesic is called with: none,
\* one or both of them given.
GeodesicArgs ==
    {<<None, None>>}
        \cup {<<e, None>> : e \in Vec}
        \cup {<<None, t>> : t \in Vec}
        \cup {<<e, e>> : e \in Vec}

(***************************************************************************)
(* FlatRiemannianMetric                                                    *)
(***************************************************************************)

\* base_point - tangent_vec: elementwise subtraction the wrong way round.
exp_sub(tangent_vec, base_point) ==
    [i \in 1..Dim |-> FSub(base_point[i], tangent_vec[i])]

\* FlatRiemannianMetric.exp: base_point + tangent_vec, elementwise.
exp(tangent_vec, base_point) ==
    [i \in 1..Dim |-> FAdd(base_point[i], tangent_vec[i])]

\* FlatRiemannianMetric.log: point - base_point, elementwise.
log(point, base_point) ==
    [i \in 1..Dim |-> FSub(point[i], base_point[i])]

\* geodesic without the check that rejects both arguments given at once.
geodesic_nocheck(initial_point, end_point, initial_tangent_vec) ==
    IF end_point = None /\ initial_tangent_vec = None
    THEN [raised |-> "ValueError", kind |-> "none", value |-> None]
    ELSE [raised |-> "", kind |-> "path",
          value  |-> [initial_point |-> initial_point,
                      initial_tangent_vec |->
                          IF end_point # None
                          THEN log(end_point, initial_point)
                          ELSE initial_tangent_vec]]

\* FlatRiemannianMetric.geodesic: the returned path is the closure over
\* initial_point and initial_tangent_vec.
geodesic(initial_point, end_point, initial_tangent_vec) ==
    IF end_point = None /\ initial_tangent_vec = None
    THEN [raised |-> "ValueError", kind |-> "none", value |-> None]
    ELSE IF end_point # None /\ initial_tangent_vec # None
    THEN [raised |-> "ValueError", kind |-> "none", value |-> None]
    ELSE [raised |-> "", kind |-> "path",
          value  |-> [initial_point |-> initial_point,
                      initial_tangent_vec |->
                          IF end_point # None
                          THEN log(end_point, initial_point)
                          ELSE initial_tangent_vec]]

NoCall == [op |-> "none", base_point |-> None, arg |-> None, arg2 |-> None]

NoRet == [raised |-> "", kind |-> "none", value |-> None]

InitFlatVars ==
    /\ call = NoCall
    /\ ret = NoRet

\* metric.exp(tangent_vec, base_point)
Exp ==
    /\ call.op = "none"
    /\ \E base_point \in Vec, tangent_vec \in Vec :
         /\ call' = [op |-> "exp", base_point |-> base_point,
                     arg |-> tangent_vec, arg2 |-> None]
         /\ ret' = [raised |-> "", kind |-> "array", value |-> exp(tangent_vec, base_point)]
    /\ UNCHANGED <<varsPerm, varsMedian, varsAAC, varsMetric>>

\* metric.log(point, base_point) applied to the point exp just returned.
LogOfExp ==
    /\ call.op = "exp"
    /\ call' = [call EXCEPT !.op = "exp_log"]
    /\ ret' = [raised |-> "", kind |-> "array", value |-> log(ret.value, call.base_point)]
    /\ UNCHANGED <<varsPerm, varsMedian, varsAAC, varsMetric>>

\* metric.log(point, base_point)
Log ==
    /\ call.op = "none"
    /\ \E base_point \in Vec, point \in Vec :
         /\ call' = [op |-> "log", base_point |-> base_point,
                     arg |-> point, arg2 |-> None]
         /\ ret' = [raised |-> "", kind |-> "array", value |-> log(point, base_point)]
    /\ UNCHANGED <<varsPerm, varsMedian, varsAAC, varsMetric>>

\* metric.exp(tangent_vec, base_point) applied to the vector log just returned.
ExpOfLog ==
    /\ call.op = "log"
    /\ call' = [call EXCEPT !.op = "log_exp"]
    /\ ret' = [raised |-> "", kind |-> "array", value |-> exp(ret.value, call.base_point)]
    /\ UNCHANGED <<varsPerm, varsMedian, varsAAC, varsMetric>>

\* metric.geodesic(initial_point, end_point, initial_tangent_vec)
Geodesic ==
    /\ call.op = "none"
    /\ \E initial_point \in Vec, args \in GeodesicArgs :
         /\ call' = [op |-> "geodesic", base_point |-> initial_point,
                     arg |-> args[1], arg2 |-> args[2]]
         /\ ret' = geodesic(initial_point, args[1], args[2])
    /\ UNCHANGED <<varsPerm, varsMedian, varsAAC, varsMetric>>

NextFlat == Exp \/ LogOfExp \/ Log \/ ExpOfLog \/ Geodesic

(***************************************************************************)
(* Group actions (geometry/group_action.py).                               *)
(*                                                                         *)
(* An array is a record [ndim, data]: a vector is a tuple, a matrix a      *)
(* tuple of rows, a batch a tuple of its slices.  Python's index i is      *)
(* position i + 1 of a tuple.  The entries of the matrices here are small  *)
(* integers and 0/1, on which the floating-point products and sums of a    *)
(* matrix product are exact.                                               *)
(***************************************************************************)
\* All permutation vectors of length N: the bijections of 0..N-1.
PermVecs == {g \in [1..N -> 0..(N - 1)] : \A i, j \in 1..N : g[i] = g[j] => i = j}

\* The shapes of a group_elem array: 0 stands for [N], b >= 1 for [b, N].
BatchShapes == 0..MaxBatch

\* The data of the group_elem arrays of shape b.
GroupData(b) == IF b = 0 THEN PermVecs ELSE [1..b -> PermVecs]

\* The group_elem array of shape b with data d.
GroupElem(b, d) == [ndim |-> IF b = 0 THEN 1 ELSE 2, data |-> d]

Cells == (1..N) \X (1..N)

RECURSIVE CellSets(_)
\* The sets of at most k cells.
CellSets(k) ==
    IF k = 0 THEN {{}}
    ELSE LET smaller == CellSets(k - 1)
         IN  smaller \cup {T \cup {c} : T \in smaller, c \in Cells}

\* The rank of a cell among the cells of S, in row-major order, from 1.
RankIn(S, c) ==
    Cardinality({d \in S : d[1] < c[1] \/ (d[1] = c[1] /\ d[2] <= c[2])})

\* point arrays of shape [N, N]: at most MaxNonzero nonzero entries, which
\* are 1, 2, ... in row-major order, so that no two entries of a point are
\* equal unless both are 0.
Points ==
    {[ndim |-> 2,
      data |-> [i \in 1..N |-> [j \in 1..N |->
                   IF <<i, j>> \in S THEN RankIn(S, <<i, j>>) ELSE 0]]] :
     S \in CellSets(MaxNonzero)}

RECURSIVE inverse_loop(_, _, _)
\* The loop of _inverse_element_single from its k-th round on:
\* for val, index in enumerate(group_elem): inverse_group_elem[index] = val
inverse_loop(group_elem, k, inverse_group_elem) ==
    IF k > Len(group_elem) THEN inverse_group_elem
    ELSE inverse_loop(group_elem, k + 1,
             [inverse_group_elem EXCEPT ![group_elem[k] + 1] = k - 1])

\* The assignment the wrong way round: inverse_group_elem[val] = index.
inverse_element_single_copy(group_elem) ==
    [i \in 1..Len(group_elem) |-> group_elem[i]]

RECURSIVE inverse_loop_short(_, _, _)
inverse_loop_short(group_elem, k, inverse_group_elem) ==
    IF k > Len(group_elem) - 1 THEN inverse_group_elem
    ELSE inverse_loop_short(group_elem, k + 1,
             [inverse_group_elem EXCEPT ![group_elem[k] + 1] = k - 1])

\* The loop stopping one element early.
inverse_element_single_short(group_elem) ==
    inverse_loop_short(group_elem, 1, [i \in 1..Len(group_elem) |-> 0])

\* _PermutationActionMixins._inverse_element_single, on a tuple.
inverse_element_single(group_elem) ==
    inverse_loop(group_elem, 1, [i \in 1..Len(group_elem) |-> 0])

\* _PermutationActionMixins.inverse_element
inverse_element(group_elem) ==
    IF group_elem.ndim = 1
    THEN [ndim |-> 1, data |-> inverse_element_single(group_elem.data)]
    ELSE [ndim |-> 2,
          data |-> [k \in 1..Len(group_elem.data) |->
                       inverse_element_single(group_elem.data[k])]]

RECURSIVE inverse_run(_, _, _)
\* The loop of _inverse_element_single from its k-th round on, on the two
\* arrays it has references to: enumerate reads group_elem as it is in that
\* round, the assignment writes into mem[target].
inverse_run(mem, k, target) ==
    IF k > Len(mem.group_elem) THEN mem
    ELSE inverse_run([mem EXCEPT ![target][mem.group_elem[k] + 1] = k - 1],
                     k + 1, target)

\* inverse_group_elem = group_elem in the place of gs.zeros_like(group_elem):
\* the loop writes into its own input.
inverse_element_single_inplace(group_elem) ==
    LET mem == inverse_run([group_elem |-> group_elem], 1, "group_elem")
    IN  [group_elem |-> mem.group_elem, inverse_group_elem |-> mem.group_elem]

\* _PermutationActionMixins._inverse_element_single as it acts on memory:
\* the array it returns and its argument as the call leaves it.
inverse_element_single_run(group_elem) ==
    inverse_run([group_elem |-> group_elem,
                 inverse_group_elem |-> [i \in 1..Len(group_elem) |-> 0]],
                1, "inverse_group_elem")

\* The argument of inverse_element as the call leaves it.
inverse_element_leaves(group_elem) ==
    IF group_elem.ndim = 1
    THEN [ndim |-> 1,
          data |-> inverse_element_single_run(group_elem.data).group_elem]
    ELSE [ndim |-> 2,
          data |-> [k \in 1..Len(group_elem.data) |->
                       inverse_element_single_run(group_elem.data[k]).group_elem]]

\* gs.array_from_sparse: an array of zeros of the target shape in which
\* data[t] is put at indices[t], a later put overriding an earlier one.
array_from_sparse_at(data, indices, idx) ==
    LET hits == {t \in 1..Len(indices) : indices[t] = idx}
    IN  IF hits = {} THEN 0
        ELSE data[CHOOSE t \in hits : \A u \in hits : u <= t]

\* The index pairs the wrong way round: (j, i) for (i, j).
permutation_matrix_from_vector_swapped(group_elem) ==
    LET n == IF group_elem.ndim = 1 THEN Len(group_elem.data)
             ELSE Len(group_elem.data[1])
        b == IF group_elem.ndim = 1 THEN 1 ELSE Len(group_elem.data)
        ones == [t \in 1..(b * n) |-> 1]
    IN  IF group_elem.ndim # 1
        THEN LET indices == [t \in 1..(b * n) |->
                     <<(t - 1) \div n,
                       group_elem.data[((t - 1) \div n) + 1][((t - 1) % n) + 1],
                       (t - 1) % n>>]
             IN  [ndim |-> 3,
                  data |-> [k \in 1..b |-> [i \in 1..n |-> [j \in 1..n |->
                      array_from_sparse_at(ones, indices, <<k - 1, i - 1, j - 1>>)]]]]
        ELSE LET indices == [t \in 1..n |-> <<group_elem.data[t], t - 1>>]
             IN  [ndim |-> 2,
                  data |-> [i \in 1..n |-> [j \in 1..n |->
                      array_from_sparse_at(ones, indices, <<i - 1, j - 1>>)]]]

\* permutation_matrix_from_vector: batch_shape is () for a vector and (b,) for
\* a batch; math.prod(batch_shape) is 1 for ().
permutation_matrix_from_vector(group_elem) ==
    LET n == IF group_elem.ndim = 1 THEN Len(group_elem.data)
             ELSE Len(group_elem.data[1])
        b == IF group_elem.ndim = 1 THEN 1 ELSE Len(group_elem.data)
        ones == [t \in 1..(b * n) |-> 1]
    IN  IF group_elem.ndim # 1
        THEN LET indices == [t \in 1..(b * n) |->
                     <<(t - 1) \div n,
                       (t - 1) % n,
                       group_elem.data[((t - 1) \div n) + 1][((t - 1) % n) + 1]>>]
             IN  [ndim |-> 3,
                  data |-> [k \in 1..b |-> [i \in 1..n |-> [j \in 1..n |->
                      array_from_sparse_at(ones, indices, <<k - 1, i - 1, j - 1>>)]]]]
        ELSE LET indices == [t \in 1..n |-> <<t - 1, group_elem.data[t]>>]
             IN  [ndim |-> 2,
                  data |-> [i \in 1..n |-> [j \in 1..n |->
                      array_from_sparse_at(ones, indices, <<i - 1, j - 1>>)]]]

RECURSIVE dot(_, _, _, _, _)
\* sum over k..n of a[i][k] * b[k][j]
dot(a, b, i, j, k) ==
    IF k > Len(b) THEN 0 ELSE (a[i][k] * b[k][j]) + dot(a, b, i, j, k + 1)

\* gs.matmul of two matrices.
matmul(a, b) ==
    [ndim |-> 2,
     data |-> [i \in 1..Len(a.data) |-> [j \in 1..Len(b.data[1]) |->
                  dot(a.data, b.data, i, j, 1)]]]

\* Matrices.transpose of a matrix.
transpose(a) ==
    [ndim |-> 2,
     data |-> [i \in 1..Len(a.data[1]) |-> [j \in 1..Len(a.data) |-> a.data[j][i]]]]

\* CongruenceAction.__call__: Matrices.mul(group_elem, point, group_elem^T)
CongruenceAction_call(group_elem, point) ==
    matmul(matmul(group_elem, point), transpose(group_elem))

\* PermutationAction.__call__
PermutationAction_call(group_elem, point) ==
    CongruenceAction_call(permutation_matrix_from_vector(group_elem), point)

\* RowPermutationAction.__call__
RowPermutationAction_call(group_elem, point) ==
    matmul(transpose(permutation_matrix_from_vector(group_elem)), point)

Classes == {"PermutationAction", "RowPermutationAction"}

\* action(group_elem, point) of an object of class cls.
action(cls, group_elem, point) ==
    IF cls = "PermutationAction"
    THEN PermutationAction_call(group_elem, point)
    ELSE RowPermutationAction_call(group_elem, point)

NoArray == [ndim |-> 0, data |-> <<>>]

NoGCall == [op |-> "none", cls |-> "", group_elem |-> NoArray, point |-> NoArray,
            after |-> NoArray]

InitPermVars ==
    /\ gcall = NoGCall
    /\ gret = NoArray

\* action.inverse_element(group_elem)
InverseElement ==
    /\ gcall.op = "none"
    /\ \E cls \in Classes, b \in BatchShapes : \E d \in GroupData(b) :
       LET group_elem == GroupElem(b, d) IN
         /\ gcall' = [op |-> "inverse_element", cls |-> cls,
                      group_elem |-> group_elem, point |-> NoArray,
                      after |-> inverse_element_leaves(group_elem)]
         /\ gret' = inverse_element(group_elem)
    /\ UNCHANGED <<varsFlat, varsMedian, varsAAC, varsMetric>>

\* action.inverse_element applied to the array inverse_element just returned.
InverseOfInverse ==
    /\ gcall.op = "inverse_element"
    /\ gcall' = [gcall EXCEPT !.op = "inverse_inverse"]
    /\ gret' = inverse_element(gret)
    /\ UNCHANGED <<varsFlat, varsMedian, varsAAC, varsMetric>>

\* permutation_matrix_from_vector(group_elem)
PermutationMatrix ==
    /\ gcall.op = "none"
    /\ \E b \in BatchShapes : \E d \in GroupData(b) :
       LET group_elem == GroupElem(b, d) IN
         /\ gcall' = [op |-> "permutation_matrix", cls |-> "",
                      group_elem |-> group_elem, point |-> NoArray,
                      after |-> group_elem]
         /\ gret' = permutation_matrix_from_vector(group_elem)
    /\ UNCHANGED <<varsFlat, varsMedian, varsAAC, varsMetric>>

\* action(group_elem, point), group_elem of shape [N], point of shape [N, N]
Act ==
    /\ gcall.op = "none"
    /\ \E cls \in Classes, g \in PermVecs, point \in Points :
       LET group_elem == GroupElem(0, g) IN
         /\ gcall' = [op |-> "action", cls |-> cls,
                      group_elem |-> group_elem, point |-> point,
                      after |-> group_elem]
         /\ gret' = action(cls, group_elem, point)
    /\ UNCHANGED <<varsFlat, varsMedian, varsAAC, varsMetric>>

\* action(action.inverse_element(group_elem), orbit_point) on the orbit point
\* the action just returned.
ActInverse ==
    /\ gcall.op = "action"
    /\ gcall' = [gcall EXCEPT !.op = "action_inverse"]
    /\ gret' = action(gcall.cls, inverse_element(gcall.group_elem), gret)
    /\ UNCHANGED <<varsFlat, varsMedian, varsAAC, varsMetric>>

NextPerm ==
    InverseElement \/ InverseOfInverse \/ PermutationMatrix \/ Act \/ ActInverse

(***************************************************************************)
(* WeiszfeldAlgorithm (learning/geometric_median.py).                      *)
(*                                                                         *)
(* The metric is the flat metric on 1 x 1 matrices: a point is one float,  *)
(* exp is the sum, log the difference and dist the absolute value of the   *)
(* difference.                                                             *)
(***************************************************************************)
\* The points of the datasets.
PtVals == {x \in {k * One : k \in 0..MaxCoord} : IsFloat(x)}

\* The weights of the samples.
WVals == {0, One, 2 * One}

\* The learning rates: 0.5 and 1.0.
LrVals == {One \div 2, One}

\* An attribute of an object is set.
HasAttr(obj, name) == name \in DOMAIN obj

\* metric.dist(current_median, X): one distance per sample.
dist(current_median, X) ==
    [i \in 1..Len(X) |-> FAbs(FSub(X[i], current_median))]

\* single_iteration without its zero-distance guard.
single_iteration_noguard(current_median, X, weights, lr) ==
    LET dists == dist(current_median, X)
        logs  == [i \in 1..Len(X) |-> FSub(X[i], current_median)]
        mul   == [i \in 1..Len(X) |-> FDiv(weights[i], dists[i])]
        v_k   == FDiv(FSum([i \in 1..Len(X) |-> FMul(mul[i], logs[i])]),
                      FSum(mul))
    IN  [value |-> FAdd(current_median, FMul(lr, v_k)),
         ops   |-> {"dist", "sum", "log", "divide", "exp"}]

\* WeiszfeldAlgorithm.single_iteration: the value it returns and the
\* operations it performs on the way.
single_iteration(current_median, X, weights, lr) ==
    LET dists == dist(current_median, X)
        sum   == FSum(dists)
        logs  == [i \in 1..Len(X) |-> FSub(X[i], current_median)]
        mul   == [i \in 1..Len(X) |-> FDiv(weights[i], dists[i])]
        v_k   == FDiv(FSum([i \in 1..Len(X) |-> FMul(mul[i], logs[i])]),
                      FSum(mul))
    IN  IF sum = 0
        THEN [value |-> current_median, ops |-> {"dist", "sum"}]
        ELSE [value |-> FAdd(current_median, FMul(lr, v_k)),
              ops   |-> {"dist", "sum", "log", "divide", "exp"}]

\* The datasets X: 1..MaxSamples points.
Datasets == UNION {[1..n -> PtVals] : n \in 1..MaxSamples}

\* The weights argument for a dataset of n points: None or one weight each.
WeightArgs(n) == {None} \cup [1..n -> WVals]

NoSi == [op |-> "none", current_median |-> 0, X |-> <<>>, weights |-> <<>>,
         lr |-> 0, value |-> 0, ops |-> {}, calls |-> 0]

IdleFit == [pc |-> "idle", X |-> <<>>, weights |-> <<>>, current_median |-> 0,
            iter |-> 0, raised |-> ""]

\* WeiszfeldAlgorithm(metric): max_iter is the largest of the model for the
\* default 100, lr the default 1.0.
DefaultWeiszfeld ==
    [metric |-> "metric", max_iter |-> MaxIter, lr |-> One,
     init |-> None, print_every |-> None, estimate_ |-> None]

\* WeiszfeldAlgorithm.__init__: the attributes it sets.
InitMedianVars ==
    /\ \E max_iter \in 0..MaxIter, lr \in LrVals, init \in {None} \cup {Some(x) : x \in PtVals} :
         weiszfeld = [metric |-> "metric", max_iter |-> max_iter, lr |-> lr,
                      init |-> init, print_every |-> None, estimate_ |-> None]
    /\ wfit = IdleFit
    /\ si = NoSi

IdleMedianVars ==
    /\ weiszfeld = DefaultWeiszfeld
    /\ wfit = IdleFit
    /\ si = NoSi

\* estimator.single_iteration(current_median, X, weights, lr), called directly.
\* The method reads no attribute of the estimator but self.metric, so the
\* direct calls are made on the estimator built as WeiszfeldAlgorithm(metric).
SingleIteration ==
    /\ wfit.pc = "idle"
    /\ si.op = "none"
    /\ weiszfeld = DefaultWeiszfeld
    /\ \E current_median \in PtVals, X \in Datasets, lr \in LrVals :
         \E weights \in [1..Len(X) -> WVals] :
           LET r == single_iteration(current_median, X, weights, lr)
           IN  si' = [op |-> "single_iteration", current_median |-> current_median,
                      X |-> X, weights |-> weights, lr |-> lr,
                      value |-> r.value, ops |-> r.ops, calls |-> 1]
    /\ UNCHANGED <<weiszfeld, wfit>>
    /\ UNCHANGED <<varsFlat, varsPerm, varsAAC, varsMetric>>

\* WeiszfeldAlgorithm.fit, up to its loop: n_points, current_median and the
\* default weights gs.ones((n_points,)) / n_points.
FitBegin ==
    /\ wfit.pc = "idle"
    /\ si.op = "none"
    /\ \E X \in Datasets : \E weights \in WeightArgs(Len(X)) :
         wfit' = [pc |-> "loop",
                  X |-> X,
                  weights |-> IF weights = None
                              THEN [i \in 1..Len(X) |-> FDiv(One, Len(X) * One)]
                              ELSE weights,
                  current_median |-> IF weiszfeld.init = None THEN X[1]
                                     ELSE weiszfeld.init[1],
                  iter |-> 0,
                  raised |-> ""]
    /\ UNCHANGED <<weiszfeld, si>>
    /\ UNCHANGED <<varsFlat, varsPerm, varsAAC, varsMetric>>

\* One round of the loop of fit: single_iteration, then the test of
\* self.verbose, an attribute that __init__ does not set.
FitIteration ==
    /\ wfit.pc = "loop"
    /\ wfit.iter < weiszfeld.max_iter
    /\ LET r == single_iteration(wfit.current_median, wfit.X, wfit.weights,
                                 weiszfeld.lr)
       IN  /\ si' = [op |-> "fit", current_median |-> wfit.current_median,
                     X |-> wfit.X, weights |-> wfit.weights, lr |-> weiszfeld.lr,
                     value |-> r.value, ops |-> r.ops, calls |-> si.calls + 1]
           /\ wfit' = [wfit EXCEPT
                         !.iter = wfit.iter + 1,
                         !.current_median = r.value,
                         !.pc = IF HasAttr(weiszfeld, "verbose")
                                THEN "loop" ELSE "raised",
                         !.raised = IF HasAttr(weiszfeld, "verbose")
                                    THEN "" ELSE "AttributeError"]
    /\ UNCHANGED weiszfeld
    /\ UNCHANGED <<varsFlat, varsPerm, varsAAC, varsMetric>>

\* The end of fit, once the range of the loop is exhausted:
\* self.estimate_ = current_median; return self.
FitReturn ==
    /\ wfit.pc = "loop"
    /\ wfit.iter >= weiszfeld.max_iter
    /\ weiszfeld' = [weiszfeld EXCEPT !.estimate_ = Some(wfit.current_median)]
    /\ wfit' = [wfit EXCEPT !.pc = "returned"]
    /\ UNCHANGED si
    /\ UNCHANGED <<varsFlat, varsPerm, varsAAC, varsMetric>>

NextMedian == SingleIteration \/ FitBegin \/ FitIteration \/ FitReturn

(***************************************************************************)
(* AACFrechet, AACGPC, AACRegression (learning/aac.py).                    *)
(*                                                                         *)
(* The collaborators of AACFrechet are those of the line with its sign     *)
(* flip: a point is one float, the group {+1, -1} acts by x -> -x, the     *)
(* total space metric is the flat one (dist is |a - b|), and the Frechet   *)
(* mean is the arithmetic mean.  What the PCA of AACGPC and the regressor  *)
(* of AACRegression return is any value of a small set.                   *)
(***************************************************************************)
\* The samples: the points of PtVals and their opposites.
APts == PtVals \cup {0 - x : x \in PtVals}

ADatasets == UNION {[1..n -> APts] : n \in 1..MaxSamples}

\* The smallest positive float e with e + 1.0 == e (2^53 in double precision).
AbsorbsOne == 2 ^ (MantBits + FracBits)

\* The tolerances epsilon: 0.0, 1.0 and one so large that adding 1.0 to it
\* rounds back to it.
EpsVals == {0, One, AbsorbsOne}

\* The first explained-variance ratios a PCA fit returns: 0.0, 0.5, 1.0.
ExplVals == {0, One \div 2, One}

\* metric.total_space_metric.dist(a, b)
total_space_dist(a, b) == FAbs(FSub(b, a))

\* metric.dist(a, b): the distance of the quotient, between the orbits.
metric_dist(a, b) ==
    IF total_space_dist(a, FNeg(b)) < total_space_dist(a, b)
    THEN total_space_dist(a, FNeg(b)) ELSE total_space_dist(a, b)

\* metric.align_point_to_point(reference, points): each sample is replaced by
\* the point of its orbit nearest to the reference.
align_point_to_point(reference, points) ==
    [i \in 1..Len(points) |->
        IF total_space_dist(reference, FNeg(points[i]))
               < total_space_dist(reference, points[i])
        THEN FNeg(points[i]) ELSE points[i]]

\* FrechetMean(total_space_metric).fit(points).estimate_
frechet_mean(points) == FDiv(FSum(points), Len(points) * One)

\* _warn_max_iterations: whether the warning is logged.
warn_max_iterations(iteration, max_iter) == iteration = max_iter

\* The loop entered once more when the counter has reached max_iter.
loop_condition_late(error, epsilon, iteration, max_iter) ==
    error > epsilon /\ iteration <= max_iter

\* The condition of the while loop of the three fit methods.
loop_condition(error, epsilon, iteration, max_iter) ==
    error > epsilon /\ iteration < max_iter

\* random.choice consulted whatever init_point is.
random_draws_always(init_point, X) == 1..Len(X)

\* The index random.choice(X) may return in
\*     random.choice(X) if self.init_point is None else self.init_point
\* or {0} when random.choice is not called.
random_draws(init_point, X) == IF init_point = None THEN 1..Len(X) ELSE {0}

\* The value of that conditional expression once random.choice returned X[k].
initial_reference(init_point, X, k) == IF k = 0 THEN init_point[1] ELSE X[k]

\* AACFrechet.__init__
AACFrechet_init(epsilon, max_iter, init_point) ==
    [cls |-> "AACFrechet", metric |-> "metric", epsilon |-> epsilon,
     max_iter |-> max_iter, init_point |-> init_point,
     mean_estimator |-> "FrechetMean", estimate_ |-> None, n_iter_ |-> None]

\* AACGPC.__init__
AACGPC_init(epsilon, max_iter, init_point) ==
    [cls |-> "AACGPC", metric |-> "metric", epsilon |-> epsilon,
     max_iter |-> max_iter, init_point |-> init_point,
     pca_solver |-> "WrappedPCA"]

\* AACRegression.__init__
AACRegression_init(epsilon, max_iter, init_point) ==
    [cls |-> "AACRegression", metric |-> "metric", epsilon |-> epsilon,
     max_iter |-> max_iter, init_point |-> init_point,
     regressor |-> "WrappedLinearRegression"]

\* The frame of a fit call that has not started.
IdleAFit ==
    [pc |-> "idle", previous |-> 0, aligned_X |-> <<>>, new_estimate |-> None,
     error |-> 0, iteration |-> 0, logged |-> 0, raised |-> "",
     signals |-> <<>>]

InitAACVars ==
    /\ \E epsilon \in EpsVals, max_iter \in 0..MaxIter,
          init_point \in {None} \cup {Some(x) : x \in PtVals} :
         \/ /\ aac = AACFrechet_init(epsilon, max_iter, init_point)
            /\ dataset \in ADatasets
         \/ /\ aac = AACGPC_init(epsilon, max_iter, init_point)
            /\ dataset = <<0>>
         \/ /\ aac = AACRegression_init(epsilon, max_iter, init_point)
            /\ dataset = <<0>>
    /\ afit = IdleAFit
    /\ rng = 0
    /\ results = <<>>

IdleAACVars ==
    /\ aac = AACGPC_init(0, 0, None)
    /\ dataset = <<0>>
    /\ afit = IdleAFit
    /\ rng = 0
    /\ results = <<>>

\* A fit call may start: none is running and fewer than MaxFits have ended.
MayFit == afit.pc \in {"idle", "returned", "raised"} /\ Len(results) < MaxFits

\* AACFrechet.fit(X), up to its loop.
AACFrechet_FitBegin ==
    /\ aac.cls = "AACFrechet"
    /\ MayFit
    /\ \E k \in random_draws(aac.init_point, dataset) :
         /\ afit' = [pc |-> "loop",
                     previous |-> initial_reference(aac.init_point, dataset, k),
                     aligned_X |-> dataset,
                     new_estimate |-> None,
                     error |-> FAdd(aac.epsilon, One),
                     iteration |-> 0, logged |-> 0, raised |-> "",
                     signals |-> <<>>]
         /\ rng' = IF k = 0 THEN rng ELSE rng + 1
    /\ UNCHANGED <<aac, dataset, results>>
    /\ UNCHANGED <<varsFlat, varsPerm, varsMedian, varsMetric>>

\* A round of the loop that also assigns estimate_ and n_iter_.
AACFrechet_FitIteration_publishing ==
    /\ aac.cls = "AACFrechet"
    /\ afit.pc = "loop"
    /\ loop_condition(afit.error, aac.epsilon, afit.iteration, aac.max_iter)
    /\ LET aligned_X    == align_point_to_point(afit.previous, afit.aligned_X)
           new_estimate == frechet_mean(aligned_X)
       IN  /\ afit' = [afit EXCEPT
                         !.iteration = afit.iteration + 1,
                         !.aligned_X = aligned_X,
                         !.new_estimate = Some(new_estimate),
                         !.error = total_space_dist(afit.previous, new_estimate),
                         !.signals = Append(@, total_space_dist(afit.previous,
                                                new_estimate)),
                         !.previous = new_estimate]
           /\ aac' = [aac EXCEPT !.estimate_ = Some(new_estimate),
                                 !.n_iter_ = Some(afit.iteration + 1)]
    /\ UNCHANGED <<dataset, rng, results>>
    /\ UNCHANGED <<varsFlat, varsPerm, varsMedian, varsMetric>>

\* A round of the loop that makes the new mean the reference before it
\* computes the error.
AACFrechet_FitIteration_reference_first ==
    /\ aac.cls = "AACFrechet"
    /\ afit.pc = "loop"
    /\ loop_condition(afit.error, aac.epsilon, afit.iteration, aac.max_iter)
    /\ LET aligned_X    == align_point_to_point(afit.previous, afit.aligned_X)
           new_estimate == frechet_mean(aligned_X)
           previous     == new_estimate
       IN  afit' = [afit EXCEPT
                      !.iteration = afit.iteration + 1,
                      !.aligned_X = aligned_X,
                      !.new_estimate = Some(new_estimate),
                      !.error = total_space_dist(previous, new_estimate),
                      !.signals = Append(@, total_space_dist(previous,
                                                             new_estimate)),
                      !.previous = previous]
    /\ UNCHANGED <<aac, dataset, rng, results>>
    /\ UNCHANGED <<varsFlat, varsPerm, varsMedian, varsMetric>>

\* One round of the loop of AACFrechet.fit.
AACFrechet_FitIteration ==
    /\ aac.cls = "AACFrechet"
    /\ afit.pc = "loop"
    /\ loop_condition(afit.error, aac.epsilon, afit.iteration, aac.max_iter)
    /\ LET aligned_X    == align_point_to_point(afit.previous, afit.aligned_X)
           new_estimate == frechet_mean(aligned_X)
       IN  afit' = [afit EXCEPT
                      !.iteration = afit.iteration + 1,
                      !.aligned_X = aligned_X,
                      !.new_estimate = Some(new_estimate),
                      !.error = total_space_dist(afit.previous, new_estimate),
                      !.signals = Append(@, total_space_dist(afit.previous,
                                             new_estimate)),
                      !.previous = new_estimate]
    /\ UNCHANGED <<aac, dataset, rng, results>>
    /\ UNCHANGED <<varsFlat, varsPerm, varsMedian, varsMetric>>

\* The end of AACFrechet.fit: the warning, then the two assignments, of
\* which the first reads new_estimate, a local that only the loop binds.
AACFrechet_FitEnd ==
    /\ aac.cls = "AACFrechet"
    /\ afit.pc = "loop"
    /\ ~loop_condition(afit.error, aac.epsilon, afit.iteration, aac.max_iter)
    /\ LET logged == IF warn_max_iterations(afit.iteration, aac.max_iter)
                     THEN afit.logged + 1 ELSE afit.logged
       IN  IF afit.new_estimate = None
           THEN /\ afit' = [afit EXCEPT !.pc = "raised", !.logged = logged,
                                        !.raised = "UnboundLocalError"]
                /\ aac' = aac
                /\ results' = Append(results,
                       [estimate_ |-> aac.estimate_, n_iter_ |-> aac.n_iter_,
                        raised |-> "UnboundLocalError"])
           ELSE /\ afit' = [afit EXCEPT !.pc = "returned", !.logged = logged]
                /\ aac' = [aac EXCEPT !.estimate_ = afit.new_estimate,
                                      !.n_iter_ = Some(afit.iteration)]
                /\ results' = Append(results,
                       [estimate_ |-> afit.new_estimate,
                        n_iter_ |-> Some(afit.iteration), raised |-> ""])
    /\ UNCHANGED <<dataset, rng>>
    /\ UNCHANGED <<varsFlat, varsPerm, varsMedian, varsMetric>>

\* AACFrechet.__init__ again, with the configuration of the estimator whose
\* fit has returned: a fresh estimator for the next fit.
AACFrechet_Construct ==
    /\ aac.cls = "AACFrechet"
    /\ afit.pc = "returned"
    /\ Len(results) < MaxFits
    /\ aac' = AACFrechet_init(aac.epsilon, aac.max_iter, aac.init_point)
    /\ afit' = IdleAFit
    /\ UNCHANGED <<dataset, rng, results>>
    /\ UNCHANGED <<varsFlat, varsPerm, varsMedian, varsMetric>>

\* AACGPC.fit(X) and AACRegression.fit(X, y), up to their loops: the first
\* alignment and the first fit of the PCA, resp. of the regressor, whose first
\* explained-variance ratio, resp. prediction, is the value previous.
Wrapped_FitBegin ==
    /\ aac.cls \in {"AACGPC", "AACRegression"}
    /\ MayFit
    /\ \E k \in random_draws(aac.init_point, dataset),
          previous \in IF aac.cls = "AACGPC" THEN ExplVals ELSE PtVals :
         /\ afit' = [pc |-> "loop", previous |-> previous,
                     aligned_X |-> <<>>, new_estimate |-> None,
                     error |-> FAdd(aac.epsilon, One),
                     iteration |-> 0, logged |-> 0, raised |-> "",
                     signals |-> <<>>]
         /\ rng' = IF k = 0 THEN rng ELSE rng + 1
    /\ UNCHANGED <<aac, dataset, results>>
    /\ UNCHANGED <<varsFlat, varsPerm, varsMedian, varsMetric>>

\* One round of the loop of AACGPC.fit: error = expl_ - previous_expl.
AACGPC_FitIteration ==
    /\ aac.cls = "AACGPC"
    /\ afit.pc = "loop"
    /\ loop_condition(afit.error, aac.epsilon, afit.iteration, aac.max_iter)
    /\ \E expl_ \in ExplVals :
         afit' = [afit EXCEPT
                    !.iteration = afit.iteration + 1,
                    !.error = FSub(expl_, afit.previous),
                    !.signals = Append(@, FSub(expl_, afit.previous)),
                    !.previous = expl_]
    /\ UNCHANGED <<aac, dataset, rng, results>>
    /\ UNCHANGED <<varsFlat, varsPerm, varsMedian, varsMetric>>

\* One round of the loop of AACRegression.fit:
\* error = gs.sum(self.metric.dist(previous_y_pred, y_pred)).
AACRegression_FitIteration ==
    /\ aac.cls = "AACRegression"
    /\ afit.pc = "loop"
    /\ loop_condition(afit.error, aac.epsilon, afit.iteration, aac.max_iter)
    /\ \E y_pred \in PtVals :
         afit' = [afit EXCEPT
                    !.iteration = afit.iteration + 1,
                    !.error = FSum(<<metric_dist(afit.previous, y_pred)>>),
                    !.signals = Append(@, FSum(<<metric_dist(afit.previous, y_pred)>>)),
                    !.previous = y_pred]
    /\ UNCHANGED <<aac, dataset, rng, results>>
    /\ UNCHANGED <<varsFlat, varsPerm, varsMedian, varsMetric>>

\* The end of AACGPC.fit and of AACRegression.fit: the warning; return self.
Wrapped_FitEnd ==
    /\ aac.cls \in {"AACGPC", "AACRegression"}
    /\ afit.pc = "loop"
    /\ ~loop_condition(afit.error, aac.epsilon, afit.iteration, aac.max_iter)
    /\ afit' = [afit EXCEPT
                  !.pc = "returned",
                  !.logged = IF warn_max_iterations(afit.iteration, aac.max_iter)
                             THEN afit.logged + 1 ELSE afit.logged]
    /\ results' = Append(results,
           [estimate_ |-> None, n_iter_ |-> None, raised |-> ""])
    /\ UNCHANGED <<aac, dataset, rng>>
    /\ UNCHANGED <<varsFlat, varsPerm, varsMedian, varsMetric>>

NextAAC ==
    \/ AACFrechet_FitBegin
    \/ AACFrechet_FitIteration
    \/ AACFrechet_FitEnd
    \/ AACFrechet_Construct
    \/ Wrapped_FitBegin
    \/ AACGPC_FitIteration
    \/ AACRegression_FitIteration
    \/ Wrapped_FitEnd

(***************************************************************************)
(* Arrays.  An array is its shape and its elements in row-major order; a   *)
(* scalar has the empty shape and one element.  Python's None, where an    *)
(* array is expected, is NoneArray.                                        *)
(***************************************************************************)
NoneArray == [shape |-> <<>>, data |-> <<>>]

RECURSIVE Prod(_)
Prod(shape) == IF shape = <<>> THEN 1 ELSE shape[1] * Prod(Tail(shape))

ndim(a) == Len(a.shape)

\* The number of elements one step along axis d skips.
Stride(shape, d) == Prod(SubSeq(shape, d + 1, Len(shape)))

\* The coordinate along axis d of the element at row-major offset k.
Coord(shape, k, d) == (k \div Stride(shape, d)) % shape[d]

\* A shape extended to n axes by leading axes of size 1.
PadLeft(shape, n) ==
    [d \in 1..n |-> IF d <= n - Len(shape) THEN 1
                    ELSE shape[d - (n - Len(shape))]]

MaxOf(a, b) == IF a >= b THEN a ELSE b

\* Whether two shapes broadcast against each other.
CanBroadcast(s1, s2) ==
    LET n  == MaxOf(Len(s1), Len(s2))
        p1 == PadLeft(s1, n)
        p2 == PadLeft(s2, n)
    IN  \A d \in 1..n : p1[d] = p2[d] \/ p1[d] = 1 \/ p2[d] = 1

\* The shape two arrays broadcast to.
broadcast_shape(s1, s2) ==
    LET n  == MaxOf(Len(s1), Len(s2))
        p1 == PadLeft(s1, n)
        p2 == PadLeft(s2, n)
    IN  [d \in 1..n |-> IF p1[d] = 1 THEN p2[d] ELSE p1[d]]

RECURSIVE OffsetIn(_, _, _, _)
\* The row-major offset, in an array of padded shape p, of the element that
\* is broadcast to offset k of an array of shape out; axes d..Len(out).
OffsetIn(p, out, k, d) ==
    IF d > Len(out) THEN 0
    ELSE (IF p[d] = 1 THEN 0 ELSE Coord(out, k, d) * Stride(p, d))
             + OffsetIn(p, out, k, d + 1)

\* The element of a broadcast to offset k of an array of shape out.
BroadcastAt(a, out, k) ==
    a.data[OffsetIn(PadLeft(a.shape, Len(out)), out, k, 1) + 1]

\* a + b, elementwise with broadcasting.
add(a, b) ==
    LET out == broadcast_shape(a.shape, b.shape)
    IN  [shape |-> out,
         data  |-> [k \in 1..Prod(out) |->
                       FAdd(BroadcastAt(a, out, k - 1),
                            BroadcastAt(b, out, k - 1))]]

\* a - b, elementwise with broadcasting.
subtract(a, b) ==
    LET out == broadcast_shape(a.shape, b.shape)
    IN  [shape |-> out,
         data  |-> [k \in 1..Prod(out) |->
                       FSub(BroadcastAt(a, out, k - 1),
                            BroadcastAt(b, out, k - 1))]]

\* gs.zeros(shape)
zeros(shape) == [shape |-> shape, data |-> [k \in 1..Prod(shape) |-> 0]]

\* gs.eye(n)
eye(n) ==
    [shape |-> <<n, n>>,
     data  |-> [k \in 1..(n * n) |->
                   IF (k - 1) \div n = (k - 1) % n THEN One ELSE 0]]

\* gs.copy(a): a new array with the elements of a.
copy(a) == [shape |-> a.shape, data |-> a.data]

\* gs.broadcast_to(a, batch_shape + a.shape)
broadcast_to(a, batch_shape) ==
    [shape |-> batch_shape \o a.shape,
     data  |-> [k \in 1..(Prod(batch_shape) * Len(a.data)) |->
                   a.data[((k - 1) % Len(a.data)) + 1]]]

\* gs.expand_dims(a, axis=-(point_ndim + 1)): an axis of size 1 in front of
\* the last point_ndim axes.
expand_dims(a, point_ndim) ==
    LET lead == Len(a.shape) - point_ndim
    IN  [shape |-> SubSeq(a.shape, 1, lead) \o <<1>>
                       \o SubSeq(a.shape, lead + 1, Len(a.shape)),
         data  |-> a.data]

\* The leading axes of an array of points.
BatchShape(a, point_ndim) == SubSeq(a.shape, 1, Len(a.shape) - point_ndim)

\* gs.einsum("n,...ijk->...nijk", t, v), ijk cut to point_ndim letters.
einsum(t, v, point_ndim) ==
    LET batch == BatchShape(v, point_ndim)
        P     == Prod(SubSeq(v.shape, Len(batch) + 1, Len(v.shape)))
        K     == t.shape[1]
    IN  [shape |-> batch \o <<K>> \o SubSeq(v.shape, Len(batch) + 1, Len(v.shape)),
         data  |-> [k \in 1..(Prod(batch) * K * P) |->
                       FMul(t.data[(((k - 1) \div P) % K) + 1],
                            v.data[((k - 1) \div (K * P)) * P + ((k - 1) % P) + 1])]]

\* geomstats.vectorization.check_is_batch(point_ndim, *points): some point
\* that is given has more axes than one point has.
check_is_batch(point_ndim, points) ==
    \E i \in 1..Len(points) :
        points[i] # NoneArray /\ ndim(points[i]) > point_ndim

\* The batch shape of the points given: that of the first with most axes.
get_batch_shape(point_ndim, points) ==
    IF check_is_batch(point_ndim, points)
    THEN LET i == CHOOSE i \in 1..Len(points) :
                      /\ points[i] # NoneArray
                      /\ \A j \in 1..Len(points) :
                             points[j] # NoneArray =>
                                 \/ ndim(points[j]) < ndim(points[i])
                                 \/ ndim(points[j]) = ndim(points[i]) /\ i <= j
         IN  BatchShape(points[i], point_ndim)
    ELSE <<>>

\* geomstats.vectorization.repeat_out(point_ndim, out, *points, out_shape):
\* out, repeated along the batch axes of the points when it has none.
repeat_out(point_ndim, out, points, out_shape) ==
    IF ndim(out) > Len(out_shape) THEN out
    ELSE IF get_batch_shape(point_ndim, points) = <<>> THEN out
    ELSE broadcast_to(out, get_batch_shape(point_ndim, points))

(***************************************************************************)
(* FlatRiemannianMetric as an object (geometry/flat_riemannian_metric.py), *)
(* on vector-shaped and on matrix-shaped points, single or in batches.     *)
(***************************************************************************)
\* The spaces: vectors of 1..Dim coordinates (point_ndim 1) and square
\* matrices of 1..Dim rows (point_ndim 2).
Spaces ==
    {[dim |-> d, point_ndim |-> 1, shape |-> <<d>>] : d \in 1..Dim}
        \cup {[dim |-> n * n, point_ndim |-> 2, shape |-> <<n, n>>] : n \in 1..Dim}

Seeds == 0..2

\* An array of a given shape whose elements run through -1.0, 0.0, 1.0.
Fill(shape, seed) ==
    [shape |-> shape,
     data  |-> [k \in 1..Prod(shape) |-> (((seed + k) % 3) - 1) * One]]

\* An array of a given shape whose elements run through -1.0, 0.0 and the
\* largest float of the finest spacing, whose difference from -1.0 is not a
\* float.
FillFine(shape, seed) ==
    [shape |-> shape,
     data  |-> [k \in 1..Prod(shape) |->
                   CASE (seed + k) % 3 = 0 -> 0 - One
                     [] (seed + k) % 3 = 1 -> 0
                     [] (seed + k) % 3 = 2 -> (2 ^ MantBits) - 1]]

ArgKinds == {"none", "single", "batch"}

\* A point argument: None, one point, or a batch of b points.
PointArg(space, kind, b, seed) ==
    CASE kind = "none"   -> NoneArray
      [] kind = "single" -> Fill(space.shape, seed)
      [] kind = "batch"  -> Fill(<<b>> \o space.shape, seed)

MatrixKinds == {"eye", "upper", "neg"}

\* A matrix argument of a given shape: the identity, the upper triangle of
\* ones, or minus the identity.
Matrix(shape, kind) ==
    [shape |-> shape,
     data  |-> [k \in 1..Prod(shape) |->
                   LET i == Coord(shape, k - 1, 1)
                       j == IF Len(shape) >= 2 THEN Coord(shape, k - 1, 2) ELSE 0
                   IN  CASE kind = "eye"   -> IF i = j THEN One ELSE 0
                         [] kind = "upper" -> IF i <= j THEN One ELSE 0
                         [] kind = "neg"   -> IF i = j THEN 0 - One ELSE 0]]

\* Shapes other than (dim, dim).
WrongShapes(dim) ==
    {<<dim>>, <<dim, dim + 1>>, <<dim + 1, dim>>, <<dim + 1, dim + 1>>,
     <<dim, dim, 1>>}

\* The metric_matrix arguments of the constructor.
MatrixArgs(space) ==
    {NoneArray}
        \cup {Matrix(<<space.dim, space.dim>>, kind) : kind \in MatrixKinds}
        \cup {Matrix(shape, "eye") : shape \in WrongShapes(space.dim)}

\* The times a path is called with: 0..MaxTimes times that run through
\* 0.0, 0.5, 1.0.
TimesArgs ==
    {[shape |-> <<k>>,
      data  |-> [i \in 1..k |-> (((seed + i) % 3) * One) \div 2]]
         : k \in 0..MaxTimes, seed \in Seeds}

\* A check of the number of rows only.
check_metric_matrix_rows(space, metric_matrix) ==
    IF metric_matrix = NoneArray THEN ""
    ELSE IF metric_matrix.shape[1] # space.dim THEN "ValueError"
    ELSE ""

\* FlatRiemannianMetric._check_metric_matrix_dim: the exception it raises,
\* "" when it returns.
check_metric_matrix_dim(space, metric_matrix) ==
    IF metric_matrix = NoneArray THEN ""
    ELSE IF metric_matrix.shape # <<space.dim, space.dim>> THEN "ValueError"
    ELSE ""

\* FlatRiemannianMetric.__init__: the object (metric_matrix_ is a reference,
\* 1 for the array put in the heap, 0 for None) and the array stored.
FlatRiemannianMetric_init(space, metric_matrix) ==
    LET raised == check_metric_matrix_dim(space, metric_matrix)
        stored == IF metric_matrix = NoneArray /\ space.point_ndim = 1
                  THEN eye(space.dim) ELSE metric_matrix
    IN  IF raised # ""
        THEN [self   |-> [space |-> space, raised |-> raised],
              stored |-> NoneArray]
        ELSE [self   |-> [space |-> space, raised |-> "",
                          metric_matrix_ |-> IF stored = NoneArray THEN 0 ELSE 1],
              stored |-> stored]

\* The outcome of a method: an exception, or a value; alias is the reference
\* of the heap array the value is, 0 when the value is a new array.
Raise(exc) == [raised |-> exc, value |-> NoneArray, alias |-> 0]

Return(value) == [raised |-> "", value |-> value, alias |-> 0]

\* metric_matrix returning the stored array itself.
metric_matrix_nocopy(self, mem, base_point) ==
    IF self.space.point_ndim > 1 THEN Raise("NotImplementedError")
    ELSE [raised |-> "", value |-> mem[self.metric_matrix_],
          alias |-> self.metric_matrix_]

\* FlatRiemannianMetric.metric_matrix
metric_matrix(self, mem, base_point) ==
    IF self.space.point_ndim > 1 THEN Raise("NotImplementedError")
    ELSE Return(repeat_out(self.space.point_ndim,
                           copy(mem[self.metric_matrix_]),
                           <<base_point>>,
                           <<self.space.dim, self.space.dim>>))

\* FlatRiemannianMetric.inner_product_derivative_matrix
inner_product_derivative_matrix(self, base_point) ==
    IF self.space.point_ndim > 1 THEN Raise("NotImplementedError")
    ELSE LET shape == <<self.space.dim, self.space.dim, self.space.dim>>
         IN  Return(repeat_out(self.space.point_ndim, zeros(shape),
                               <<base_point>>, shape))

\* christoffels without its check of point_ndim.
christoffels_unguarded(self, base_point) ==
    LET shape == <<self.space.dim, self.space.dim, self.space.dim>>
    IN  Return(repeat_out(self.space.point_ndim, zeros(shape),
                          <<base_point>>, shape))

\* FlatRiemannianMetric.christoffels
christoffels(self, base_point) ==
    IF self.space.point_ndim > 1 THEN Raise("NotImplementedError")
    ELSE LET shape == <<self.space.dim, self.space.dim, self.space.dim>>
             gamma == zeros(shape)
         IN  Return(repeat_out(self.space.point_ndim, gamma,
                               <<base_point>>, shape))

\* A transport that adds the direction when one is given.
parallel_transport_along(self, tangent_vec, base_point, direction, end_point) ==
    LET moved == IF direction # NoneArray
                     /\ CanBroadcast(tangent_vec.shape, direction.shape)
                 THEN add(tangent_vec, direction) ELSE copy(tangent_vec)
    IN  Return(repeat_out(self.space.point_ndim, moved,
                          <<tangent_vec, base_point, direction, end_point>>,
                          self.space.shape))

\* FlatRiemannianMetric.parallel_transport
parallel_transport(self, tangent_vec, base_point, direction, end_point) ==
    LET transported_tangent_vec == copy(tangent_vec)
    IN  Return(repeat_out(self.space.point_ndim, transported_tangent_vec,
                          <<tangent_vec, base_point, direction, end_point>>,
                          self.space.shape))

\* FlatRiemannianMetric.injectivity_radius
injectivity_radius(self, base_point) ==
    LET radius == [shape |-> <<>>, data |-> <<PINF>>]
    IN  Return(repeat_out(self.space.point_ndim, radius, <<base_point>>, <<>>))

\* FlatRiemannianMetric.exp, on arrays.
exp_array(self, tangent_vec, base_point) ==
    IF CanBroadcast(base_point.shape, tangent_vec.shape)
    THEN Return(add(base_point, tangent_vec)) ELSE Raise("ValueError")

\* log with its operands the other way round: base_point - point.
log_array_reversed(self, point, base_point) ==
    IF CanBroadcast(point.shape, base_point.shape)
    THEN Return(subtract(base_point, point)) ELSE Raise("ValueError")

\* FlatRiemannianMetric.log, on arrays.
log_array(self, point, base_point) ==
    IF CanBroadcast(point.shape, base_point.shape)
    THEN Return(subtract(point, base_point)) ELSE Raise("ValueError")

\* RiemannianMetric.inner_product of two vectors: tangent_vec_a contracted
\* with the metric matrix, then with tangent_vec_b.
inner_product(self, mem, tangent_vec_a, tangent_vec_b, base_point) ==
    LET g == metric_matrix(self, mem, base_point)
        n == self.space.dim
        aux == [k \in 1..n |->
                   FSum([j \in 1..n |->
                            FMul(tangent_vec_a.data[j],
                                 g.value.data[(j - 1) * n + k])])]
    IN  IF g.raised # "" THEN g
        ELSE Return([shape |-> <<>>,
                     data  |-> <<FSum([k \in 1..n |->
                                          FMul(aux[k], tangent_vec_b.data[k])])>>])

\* The frame of a geodesic call: what the path it returns closes over.
Frame(initial_point, initial_tangent_vec, point_ndim) ==
    [raised |-> "", initial_point |-> initial_point,
     initial_tangent_vec |-> initial_tangent_vec, point_ndim |-> point_ndim]

NoClosure == Frame(NoneArray, NoneArray, 0)

RaiseFrame(exc) == [NoClosure EXCEPT !.raised = exc]

\* geodesic without the expand_dims of a batch of initial conditions.
geodesic_path_noexpand(self, initial_point, end_point, initial_tangent_vec) ==
    IF end_point = NoneArray /\ initial_tangent_vec = NoneArray
    THEN RaiseFrame("ValueError")
    ELSE IF end_point # NoneArray /\ initial_tangent_vec # NoneArray
    THEN RaiseFrame("ValueError")
    ELSE IF end_point # NoneArray
             /\ ~CanBroadcast(end_point.shape, initial_point.shape)
    THEN RaiseFrame("ValueError")
    ELSE Frame(initial_point,
               IF end_point # NoneArray
               THEN log_array(self, end_point, initial_point).value
               ELSE initial_tangent_vec,
               self.space.point_ndim)

\* FlatRiemannianMetric.geodesic on arrays, up to the definition of path.
geodesic_path(self, initial_point, end_point, initial_tangent_vec) ==
    IF end_point = NoneArray /\ initial_tangent_vec = NoneArray
    THEN RaiseFrame("ValueError")
    ELSE IF end_point # NoneArray /\ initial_tangent_vec # NoneArray
    THEN RaiseFrame("ValueError")
    ELSE IF end_point # NoneArray
             /\ ~CanBroadcast(end_point.shape, initial_point.shape)
    THEN RaiseFrame("ValueError")
    ELSE LET tangent_vec == IF end_point # NoneArray
                            THEN log_array(self, end_point, initial_point).value
                            ELSE initial_tangent_vec
             is_batch == check_is_batch(self.space.point_ndim,
                                        <<initial_point, tangent_vec>>)
         IN  Frame(IF is_batch
                   THEN expand_dims(initial_point, self.space.point_ndim)
                   ELSE initial_point,
                   tangent_vec, self.space.point_ndim)

\* The path returned by geodesic, called with the times t.
path(frame, t) ==
    LET tangent_vecs == einsum(t, frame.initial_tangent_vec, frame.point_ndim)
    IN  IF CanBroadcast(frame.initial_point.shape, tangent_vecs.shape)
        THEN Return(add(frame.initial_point, tangent_vecs))
        ELSE Raise("ValueError")

\* No path is held.
NoPath == [frame |-> NoClosure, given |-> <<>>]

NoMCall == [op |-> "none", args |-> <<>>, raised |-> "", ret |-> 0,
            intact |-> TRUE, previous |-> NoneArray]

\* The state after FlatRiemannianMetric(space, metric_matrix).  The heap
\* holds the array metric_matrix_ refers to (reference 1) and the array the
\* last call returned (reference 2); arg and stored keep the argument of the
\* constructor and the array it stored.
InitMetricVars ==
    /\ \E space \in Spaces :
         \E matrix_arg \in MatrixArgs(space) :
           LET c == FlatRiemannianMetric_init(space, matrix_arg)
           IN  /\ metric = c.self
               /\ heap = [mem |-> <<c.stored, NoneArray>>, written |-> FALSE,
                          arg |-> matrix_arg, stored |-> c.stored]
    /\ mcall = NoMCall
    /\ closure = NoPath

IdleMetricVars ==
    LET space == [dim |-> 1, point_ndim |-> 1, shape |-> <<1>>]
        c     == FlatRiemannianMetric_init(space, NoneArray)
    IN  /\ metric = c.self
        /\ heap = [mem |-> <<c.stored, NoneArray>>, written |-> FALSE,
                   arg |-> NoneArray, stored |-> c.stored]
        /\ mcall = NoMCall
        /\ closure = NoPath

\* The constructor returned: methods can be called.
Constructed == metric.raised = ""

\* The metric is the one FlatRiemannianMetric(space) builds.
DefaultMetric == Constructed /\ heap.arg = NoneArray

\* A method call ends with the outcome r: an exception, or a value, which
\* the caller holds a reference to.
MethodEnds(op, args, r, previous) ==
    /\ mcall' = [op |-> op, args |-> args, raised |-> r.raised,
                 ret |-> IF r.raised # "" THEN 0
                         ELSE IF r.alias # 0 THEN r.alias ELSE 2,
                 intact |-> TRUE, previous |-> previous]
    /\ heap' = [heap EXCEPT !.mem[2] = IF r.raised = "" /\ r.alias = 0
                                      THEN r.value ELSE NoneArray]

\* The caller holds nothing a call returned: it makes its next call.
Idle == mcall.op = "none"

\* metric.metric_matrix(base_point)
MetricMatrix ==
    /\ Constructed
    /\ Idle
    /\ \E kind \in ArgKinds, b \in 1..MaxBatch, seed \in Seeds :
         LET base_point == PointArg(metric.space, kind, b, seed)
         IN  MethodEnds("metric_matrix", <<base_point>>,
                        metric_matrix(metric, heap.mem, base_point), NoneArray)
    /\ UNCHANGED <<metric, closure>>
    /\ UNCHANGED <<varsFlat, varsPerm, varsMedian, varsAAC>>

\* metric.inner_product_derivative_matrix(base_point)
InnerProductDerivativeMatrix ==
    /\ Constructed
    /\ Idle
    /\ \E kind \in ArgKinds, b \in 1..MaxBatch, seed \in Seeds :
         LET base_point == PointArg(metric.space, kind, b, seed)
         IN  MethodEnds("inner_product_derivative_matrix", <<base_point>>,
                        inner_product_derivative_matrix(metric, base_point),
                        NoneArray)
    /\ UNCHANGED <<metric, closure>>
    /\ UNCHANGED <<varsFlat, varsPerm, varsMedian, varsAAC>>

\* metric.christoffels(base_point)
Christoffels ==
    /\ Constructed
    /\ Idle
    /\ \E kind \in ArgKinds, b \in 1..MaxBatch, seed \in Seeds :
         LET base_point == PointArg(metric.space, kind, b, seed)
         IN  MethodEnds("christoffels", <<base_point>>,
                        christoffels(metric, base_point), NoneArray)
    /\ UNCHANGED <<metric, closure>>
    /\ UNCHANGED <<varsFlat, varsPerm, varsMedian, varsAAC>>

\* metric.inner_product(tangent_vec_a, tangent_vec_b) on two vectors.
InnerProduct ==
    /\ Constructed
    /\ Idle
    /\ \E seed_a, seed_b \in Seeds :
         LET tangent_vec_a == PointArg(metric.space, "single", 1, seed_a)
             tangent_vec_b == PointArg(metric.space, "single", 1, seed_b)
         IN  MethodEnds("inner_product", <<tangent_vec_a, tangent_vec_b>>,
                        inner_product(metric, heap.mem, tangent_vec_a,
                                      tangent_vec_b, NoneArray),
                        NoneArray)
    /\ UNCHANGED <<metric, closure>>
    /\ UNCHANGED <<varsFlat, varsPerm, varsMedian, varsAAC>>

\* metric.parallel_transport(tangent_vec, base_point, direction, end_point)
ParallelTransport ==
    /\ Constructed
    /\ Idle
    /\ \E b \in 1..MaxBatch, seed \in Seeds,
          kind_v \in {"single", "batch"}, kind_p, kind_d, kind_e \in ArgKinds :
         LET tangent_vec == PointArg(metric.space, kind_v, b, seed)
             base_point  == PointArg(metric.space, kind_p, b, seed + 1)
             direction   == PointArg(metric.space, kind_d, b, seed + 2)
             end_point   == PointArg(metric.space, kind_e, b, seed)
         IN  MethodEnds("parallel_transport",
                        <<tangent_vec, base_point, direction, end_point>>,
                        parallel_transport(metric, tangent_vec, base_point,
                                           direction, end_point),
                        NoneArray)
    /\ UNCHANGED <<metric, closure>>
    /\ UNCHANGED <<varsFlat, varsPerm, varsMedian, varsAAC>>

\* metric.injectivity_radius(base_point)
InjectivityRadius ==
    /\ Constructed
    /\ Idle
    /\ \E kind \in {"single", "batch"}, b \in 1..MaxBatch, seed \in Seeds :
         LET base_point == PointArg(metric.space, kind, b, seed)
         IN  MethodEnds("injectivity_radius", <<base_point>>,
                        injectivity_radius(metric, base_point), NoneArray)
    /\ UNCHANGED <<metric, closure>>
    /\ UNCHANGED <<varsFlat, varsPerm, varsMedian, varsAAC>>

\* metric.exp(tangent_vec, base_point), single points or batches of one size.
ExpArray ==
    /\ Constructed
    /\ Idle
    /\ \E b \in 1..MaxBatch, seed \in Seeds, kind_v, kind_p \in {"single", "batch"} :
         LET tangent_vec == PointArg(metric.space, kind_v, b, seed)
             base_point  == PointArg(metric.space, kind_p, b, seed + 1)
         IN  MethodEnds("exp", <<tangent_vec, base_point>>,
                        exp_array(metric, tangent_vec, base_point), NoneArray)
    /\ UNCHANGED <<metric, closure>>
    /\ UNCHANGED <<varsFlat, varsPerm, varsMedian, varsAAC>>

\* metric.log(point, base_point), single points or batches of one size.
LogArray ==
    /\ Constructed
    /\ Idle
    /\ \E b \in 1..MaxBatch, seed \in Seeds, kind_q, kind_p \in {"single", "batch"} :
         LET point      == PointArg(metric.space, kind_q, b, seed)
             base_point == PointArg(metric.space, kind_p, b, seed + 1)
         IN  MethodEnds("log", <<point, base_point>>,
                        log_array(metric, point, base_point), NoneArray)
    /\ UNCHANGED <<metric, closure>>
    /\ UNCHANGED <<varsFlat, varsPerm, varsMedian, varsAAC>>

\* metric.geodesic(initial_point, end_point=...) or
\* metric.geodesic(initial_point, initial_tangent_vec=...): the path is kept.
\* geodesic reads nothing of the metric but the point_ndim of its space.
GeodesicPath ==
    /\ DefaultMetric
    /\ Idle
    /\ \E b \in 1..MaxBatch, seed \in Seeds, with_end, fine \in BOOLEAN,
          kind_p, kind_o \in {"single", "batch"} :
         LET initial_point == PointArg(metric.space, kind_p, b, seed)
             coarse        == PointArg(metric.space, kind_o, b, seed + 1)
             other         == IF fine THEN FillFine(coarse.shape, seed + 1)
                                      ELSE coarse
             end_point           == IF with_end THEN other ELSE NoneArray
             initial_tangent_vec == IF with_end THEN NoneArray ELSE other
             frame == geodesic_path(metric, initial_point, end_point,
                                    initial_tangent_vec)
         IN  /\ closure' = [frame |-> frame,
                             given |-> <<initial_point, end_point,
                                         initial_tangent_vec>>]
             /\ mcall' = [op |-> "geodesic",
                          args |-> <<initial_point, end_point, initial_tangent_vec>>,
                          raised |-> frame.raised, ret |-> 0,
                          intact |-> TRUE, previous |-> NoneArray]
    /\ UNCHANGED <<metric, heap>>
    /\ UNCHANGED <<varsFlat, varsPerm, varsMedian, varsAAC>>

\* path(t) on the path the last geodesic call returned: a first call with
\* any times, then calls with the same times again.  previous is what the
\* call before returned.
PathCall ==
    /\ Constructed
    /\ mcall.op \in {"geodesic", "path"}
    /\ closure.frame.raised = ""
    /\ \E t \in IF mcall.op = "path" THEN {mcall.args[1]} ELSE TimesArgs :
         MethodEnds("path", <<t>>, path(closure.frame, t),
                    IF mcall.op = "path" /\ mcall.raised = "" /\ mcall.intact
                    THEN heap.mem[mcall.ret] ELSE NoneArray)
    /\ UNCHANGED <<metric, closure>>
    /\ UNCHANGED <<varsFlat, varsPerm, varsMedian, varsAAC>>

\* The caller writes into the array metric_matrix or parallel_transport
\* returned to it.
CallerWrites ==
    /\ mcall.op \in {"metric_matrix", "parallel_transport"}
    /\ mcall.ret # 0
    /\ Len(heap.mem[mcall.ret].data) > 0
    /\ heap' = [heap EXCEPT
                  !.mem[mcall.ret].data[1] = IF @ = 0 THEN One ELSE 0,
                  !.written = TRUE]
    /\ mcall' = [mcall EXCEPT !.intact = FALSE]
    /\ UNCHANGED <<metric, closure>>
    /\ UNCHANGED <<varsFlat, varsPerm, varsMedian, varsAAC>>

\* The caller lets go of what the last call returned.
Release ==
    /\ mcall.op # "none"
    /\ mcall' = NoMCall
    /\ closure' = NoPath
    /\ heap' = [heap EXCEPT !.mem[2] = NoneArray]
    /\ UNCHANGED metric
    /\ UNCHANGED <<varsFlat, varsPerm, varsMedian, varsAAC>>

NextMetric ==
    \/ MetricMatrix
    \/ InnerProductDerivativeMatrix
    \/ Christoffels
    \/ InnerProduct
    \/ ParallelTransport
    \/ InjectivityRadius
    \/ ExpArray
    \/ LogArray
    \/ GeodesicPath
    \/ PathCall
    \/ CallerWrites
    \/ Release

(***************************************************************************)
(* Specifications.                                                         *)
(***************************************************************************)
InitFlat == InitFlatVars /\ InitPermVars /\ IdleMedianVars /\ IdleAACVars
    /\ IdleMetricVars

SpecFlat == InitFlat /\ [][NextFlat]_vars

InitPerm == InitFlatVars /\ InitPermVars /\ IdleMedianVars /\ IdleAACVars
    /\ IdleMetricVars

SpecPerm == InitPerm /\ [][NextPerm]_vars

InitMedian == InitFlatVars /\ InitPermVars /\ InitMedianVars /\ IdleAACVars
    /\ IdleMetricVars

SpecMedian == InitMedian /\ [][NextMedian]_vars

InitAAC == InitFlatVars /\ InitPermVars /\ IdleMedianVars /\ InitAACVars
    /\ IdleMetricVars

SpecAAC == InitAAC /\ [][NextAAC]_vars

\* One estimator at a time: a WeiszfeldAlgorithm while no alignment-based
\* estimator is in use, or an alignment-based estimator while no
\* WeiszfeldAlgorithm is.
InitEstimators ==
    /\ InitFlatVars /\ InitPermVars /\ IdleMetricVars
    /\ \/ InitMedianVars /\ IdleAACVars
       \/ IdleMedianVars /\ InitAACVars

NextEstimators ==
    \/ IdleAACVars /\ SingleIteration
    \/ IdleAACVars /\ FitBegin
    \/ IdleAACVars /\ FitIteration
    \/ IdleAACVars /\ FitReturn
    \/ IdleMedianVars /\ AACFrechet_FitBegin
    \/ IdleMedianVars /\ AACFrechet_FitIteration
    \/ IdleMedianVars /\ AACFrechet_FitEnd
    \/ IdleMedianVars /\ AACFrechet_Construct
    \/ IdleMedianVars /\ Wrapped_FitBegin
    \/ IdleMedianVars /\ AACGPC_FitIteration
    \/ IdleMedianVars /\ AACRegression_FitIteration
    \/ IdleMedianVars /\ Wrapped_FitEnd

SpecEstimators == InitEstimators /\ [][NextEstimators]_vars

InitMetric ==
    InitFlatVars /\ InitPermVars /\ IdleMedianVars /\ IdleAACVars
    /\ InitMetricVars

SpecMetric == InitMetric /\ [][NextMetric]_vars

(***************************************************************************)
(* Properties of FlatRiemannianMetric, checked under SpecFlat.             *)
(***************************************************************************)
\* The sums base_point + tangent_vec of an exp call are exact.
ExpIsExact ==
    \A i \in 1..Dim : ExactAdd(call.base_point[i], call.arg[i])

\* The differences point - base_point of a log call are exact.
LogIsExact ==
    \A i \in 1..Dim : ExactAdd(call.arg[i], FNeg(call.base_point[i]))

\* C1, as stated: for every point p, point q and tangent vector v of the same
\* shape, log(exp(v, p), p) equals v exactly and exp(log(q, p), p) equals q
\* exactly.
C1_RoundTripExact ==
    /\ call.op = "exp_log" => ret.value = call.arg
    /\ call.op = "log_exp" => ret.value = call.arg

\* C1, amended: log(exp(v, p), p) equals v whenever the sum p + v is
\* computed without rounding, and exp(log(q, p), p) equals q whenever the
\* difference q - p is computed without rounding.
C1_RoundTripWhenExact ==
    /\ (call.op = "exp_log" /\ ExpIsExact) => ret.value = call.arg
    /\ (call.op = "log_exp" /\ LogIsExact) => ret.value = call.arg

\* log(exp(v, p), p) has returned v for a nonzero v at a nonzero p whose sum
\* is exact.
C1_Witness ==
    /\ call.op = "exp_log"
    /\ ExpIsExact
    /\ \A i \in 1..Dim : call.arg[i] # 0 /\ call.base_point[i] # 0
    /\ ret.value = call.arg

\* C10: geodesic raises ValueError when both end_point and
\* initial_tangent_vec are given and when neither is given, and returns a
\* path when exactly one of them is given.
C10_GeodesicArguments ==
    call.op = "geodesic" =>
        LET given == {k \in {"arg", "arg2"} : call[k] # None}
        IN  IF Cardinality(given) = 1
            THEN ret.raised = "" /\ ret.kind = "path"
            ELSE ret.raised = "ValueError" /\ ret.kind = "none"

\* geodesic has been called with both end_point and initial_tangent_vec and
\* has raised ValueError.
C10_Witness ==
    /\ call.op = "geodesic"
    /\ call.arg # None
    /\ call.arg2 # None
    /\ ret.raised = "ValueError"

(***************************************************************************)
(* Properties of the permutation actions, checked under SpecPerm.          *)
(***************************************************************************)
\* C2: for every permutation vector g of length n and every n x n matrix p,
\* action(inverse_element(g), action(g, p)) equals p, for PermutationAction
\* and for RowPermutationAction.
C2_ActionInverseRoundTrip ==
    gcall.op = "action_inverse" => gret = gcall.point

\* The round trip has returned p for a g that is not its own inverse and a p
\* that g moves.
C2_Witness ==
    /\ gcall.op = "action_inverse"
    /\ inverse_element(gcall.group_elem) # gcall.group_elem
    /\ action(gcall.cls, gcall.group_elem, gcall.point) # gcall.point
    /\ gret = gcall.point

\* C3: for every permutation vector g of length n,
\* inverse_element(inverse_element(g)) equals g, for both permutation action
\* classes.
C3_InverseInvolution ==
    gcall.op = "inverse_inverse" => gret = gcall.group_elem

\* inverse_element applied twice has returned a g that is not its own
\* inverse.
C3_Witness ==
    /\ gcall.op = "inverse_inverse"
    /\ gcall.group_elem.ndim = 1
    /\ inverse_element(gcall.group_elem) # gcall.group_elem
    /\ gret = gcall.group_elem

\* The n x n matrix with 1 at (i, g[i]) for every i and 0 everywhere else.
OneHot(g) ==
    [i \in 1..Len(g) |-> [j \in 1..Len(g) |-> IF j - 1 = g[i] THEN 1 ELSE 0]]

\* Every row and every column of the matrix m holds exactly one 1.
OnePerRowAndColumn(m) ==
    /\ \A i \in 1..Len(m) : Cardinality({j \in 1..Len(m) : m[i][j] = 1}) = 1
    /\ \A j \in 1..Len(m) : Cardinality({i \in 1..Len(m) : m[i][j] = 1}) = 1

\* C4: permutation_matrix_from_vector(g) is the n x n matrix with 1 at
\* (i, g[i]) for every i and 0 everywhere else, so every row and every column
\* holds exactly one 1; for a batch of shape [b, n], slice k of the result is
\* the matrix of g[k].
C4_PermutationMatrix ==
    gcall.op = "permutation_matrix" =>
        LET g == gcall.group_elem
        IN  IF g.ndim = 1
            THEN /\ gret = [ndim |-> 2, data |-> OneHot(g.data)]
                 /\ OnePerRowAndColumn(gret.data)
            ELSE /\ gret.ndim = 3
                 /\ Len(gret.data) = Len(g.data)
                 /\ \A k \in 1..Len(g.data) :
                      /\ gret.data[k] = OneHot(g.data[k])
                      /\ OnePerRowAndColumn(gret.data[k])

\* The matrices of the batch [[1, 0, 2], [1, 2, 0]] have been built: the first
\* has its ones at (0, 1), (1, 0), (2, 2).
C4_Witness ==
    /\ gcall.op = "permutation_matrix"
    /\ gcall.group_elem = [ndim |-> 2, data |-> <<<<1, 0, 2>>, <<1, 2, 0>>>>]
    /\ gret.data[1] = <<<<0, 1, 0>>, <<1, 0, 0>>, <<0, 0, 1>>>>
    /\ gret.data[2] = <<<<0, 1, 0>>, <<0, 0, 1>>, <<1, 0, 0>>>>

(***************************************************************************)
(* Properties of the FlatRiemannianMetric object, checked under            *)
(* SpecMetric.                                                             *)
(***************************************************************************)
\* Every element of r is the element of v that broadcasting v to the shape
\* of r puts there.
RepeatsOf(r, v) ==
    /\ Len(r.shape) >= Len(v.shape)
    /\ SubSeq(r.shape, Len(r.shape) - Len(v.shape) + 1, Len(r.shape)) = v.shape
    /\ \A k \in 1..Len(r.data) : r.data[k] = BroadcastAt(v, r.shape, k - 1)

\* C11: parallel_transport(v, base_point, direction, end_point) returns,
\* without raising, an array equal in value to v, whatever base_point,
\* direction and end_point are (None included): they do not influence the
\* values returned.
C11_ParallelTransportIdentity ==
    (mcall.op = "parallel_transport" /\ mcall.intact)
    => /\ mcall.raised = ""
       /\ mcall.ret # 0
       /\ RepeatsOf(heap.mem[mcall.ret], mcall.args[1])

\* One nonzero vector transported with a batch of at least two base points
\* and a direction: as many copies of it come back.
C11_Witness ==
    /\ mcall.op = "parallel_transport"
    /\ mcall.intact
    /\ ndim(mcall.args[1]) = metric.space.point_ndim
    /\ \E k \in 1..Len(mcall.args[1].data) : mcall.args[1].data[k] # 0
    /\ ndim(mcall.args[2]) > metric.space.point_ndim
    /\ mcall.args[2].shape[1] >= 2
    /\ mcall.args[3] # NoneArray
    /\ mcall.args[3] # mcall.args[1]
    /\ mcall.args[4] = NoneArray
    /\ heap.mem[mcall.ret].shape = <<mcall.args[2].shape[1]>> \o metric.space.shape

\* C12: the constructor succeeds exactly when metric_matrix is None or has
\* the shape (dim, dim); otherwise it raises ValueError and metric_matrix_
\* is not stored; with None on a space of vectors the matrix stored is the
\* dim x dim identity.
C12_ConstructorShapeCheck ==
    LET dim == metric.space.dim
    IN  /\ metric.raised = "" <=>
               (heap.arg = NoneArray \/ heap.arg.shape = <<dim, dim>>)
        /\ metric.raised # "" =>
               metric.raised = "ValueError" /\ ~HasAttr(metric, "metric_matrix_")
        /\ (heap.arg = NoneArray /\ metric.space.point_ndim = 1) =>
               /\ metric.metric_matrix_ = 1
               /\ heap.mem[1].shape = <<dim, dim>>
               /\ \A i, j \in 1..dim :
                      heap.mem[1].data[(i - 1) * dim + j]
                          = IF i = j THEN One ELSE 0

\* A matrix with the right number of rows and one column too many is
\* refused.
C12_Witness ==
    /\ metric.raised = "ValueError"
    /\ metric.space.dim >= 2
    /\ heap.arg.shape = <<metric.space.dim, metric.space.dim + 1>>
    /\ ~HasAttr(metric, "metric_matrix_")

\* C13: on a space with point_ndim > 1, metric_matrix,
\* inner_product_derivative_matrix and christoffels raise
\* NotImplementedError and return nothing, for every base_point, None
\* included; with point_ndim = 1 none of them raises.
C13_MatrixQueriesVectorOnly ==
    mcall.op \in {"metric_matrix", "inner_product_derivative_matrix",
                  "christoffels"}
    => IF metric.space.point_ndim > 1
       THEN mcall.raised = "NotImplementedError" /\ mcall.ret = 0
       ELSE mcall.raised = "" /\ mcall.ret # 0

\* christoffels(None) on a space of matrices.
C13_Witness ==
    /\ mcall.op = "christoffels"
    /\ metric.space.point_ndim = 2
    /\ mcall.args[1] = NoneArray
    /\ mcall.raised = "NotImplementedError"
    /\ mcall.ret = 0

\* The batch axis of the initial conditions a geodesic call was given.
GivenBatch ==
    LET pn    == metric.space.point_ndim
        other == IF closure.given[2] # NoneArray
                 THEN closure.given[2] ELSE closure.given[3]
    IN  IF ndim(closure.given[1]) > pn THEN <<closure.given[1].shape[1]>>
        ELSE IF ndim(other) > pn THEN <<other.shape[1]>>
        ELSE <<>>

\* C14: path, called with k times, returns an array of shape
\* (k, *point_shape) for one initial condition and (batch, k, *point_shape)
\* for a batch; called again with the same times it returns the same values.
C14_PathShape ==
    mcall.op = "path"
    => /\ mcall.raised = ""
       /\ mcall.ret # 0
       /\ heap.mem[mcall.ret].shape
              = GivenBatch \o mcall.args[1].shape \o metric.space.shape
       /\ mcall.previous # NoneArray => mcall.previous = heap.mem[mcall.ret]

\* A second call, with two times, of the path from a batch of initial
\* points and one tangent vector.
C14_Witness ==
    /\ mcall.op = "path"
    /\ mcall.previous # NoneArray
    /\ mcall.args[1].shape = <<2>>
    /\ mcall.args[1].data[1] # mcall.args[1].data[2]
    /\ ndim(closure.given[1]) > metric.space.point_ndim
    /\ closure.given[1].shape[1] >= 2
    /\ closure.given[2] = NoneArray
    /\ ndim(closure.given[3]) = metric.space.point_ndim
    /\ heap.mem[mcall.ret].shape
           = <<closure.given[1].shape[1], 2>> \o metric.space.shape

\* C17: no call changes metric_matrix_ or the array it refers to;
\* metric_matrix returns an array of its own, so after the caller has
\* written into a returned matrix a later call returns the stored one again.
C17_NoPerCallState ==
    Constructed
    => /\ heap.mem[1] = heap.stored
       /\ metric.metric_matrix_ = IF heap.stored = NoneArray THEN 0 ELSE 1
       /\ (mcall.op = "metric_matrix" /\ mcall.raised = "") =>
              /\ mcall.ret # metric.metric_matrix_
              /\ mcall.intact => RepeatsOf(heap.mem[mcall.ret], heap.stored)

\* After a write into a returned matrix, metric_matrix is called with a
\* batch of base points on a metric built with a matrix of the caller.
C17_Witness ==
    /\ heap.written
    /\ mcall.op = "metric_matrix"
    /\ mcall.intact
    /\ heap.arg # NoneArray
    /\ heap.arg # eye(metric.space.dim)
    /\ ndim(mcall.args[1]) > 1
    /\ RepeatsOf(heap.mem[mcall.ret], heap.arg)

\* C18: for every metric_matrix the constructor accepts, inner_product is
\* symmetric, and positive on every nonzero vector.
C18_SymmetricPositiveDefinite ==
    (mcall.op = "inner_product" /\ mcall.raised = "" /\ heap.arg # NoneArray)
    => LET u == mcall.args[1]
           v == mcall.args[2]
       IN  /\ heap.mem[mcall.ret]
                  = inner_product(metric, heap.mem, v, u, NoneArray).value
           /\ (u = v /\ \E k \in 1..Len(u.data) : u.data[k] # 0)
                  => heap.mem[mcall.ret].data[1] > 0

(***************************************************************************)
(* WeiszfeldAlgorithm.                                                     *)
(***************************************************************************)
\* The samples of a dataset are all the same point.
RepeatedPoint(X) == \A i \in 1..Len(X) : X[i] = X[1]

\* C5: whenever the sum of the distances from current_median to the samples
\* is exactly zero, single_iteration returns current_median unchanged and
\* computes no log, no division and no exp, whatever weights and lr are.
C5_ZeroDistanceGuard ==
    (/\ si.op \in {"single_iteration", "fit"}
     /\ FSum(dist(si.current_median, si.X)) = 0)
    => /\ si.value = si.current_median
       /\ si.ops \cap {"log", "divide", "exp"} = {}

\* A direct call on two copies of current_median, with unequal weights and
\* a learning rate other than 1.
C5_Witness ==
    /\ si.op = "single_iteration"
    /\ Len(si.X) = 2
    /\ \A i \in 1..2 : si.X[i] = si.current_median
    /\ si.current_median # 0
    /\ si.weights[1] # si.weights[2]
    /\ si.lr # One
    /\ si.value = si.current_median
    /\ si.ops = {"dist", "sum"}

\* C6: fit on a dataset that is one point repeated, with any weights, lr and
\* max_iter >= 1, returns normally with estimate_ equal to that point.
C6_FitRepeatedPoint ==
    (/\ wfit.pc \in {"returned", "raised"}
     /\ RepeatedPoint(wfit.X)
     /\ weiszfeld.max_iter >= 1)
    => /\ wfit.pc = "returned"
       /\ weiszfeld.estimate_ = Some(wfit.X[1])

(***************************************************************************)
(* AACFrechet, AACGPC, AACRegression, checked under SpecAAC.               *)
(***************************************************************************)
\* A fit call has ended, by a return or by an exception.
AFitEnded == afit.pc \in {"returned", "raised"}

\* C7: fit on an estimator constructed with max_iter = 0 logs the warning
\* and returns normally; for AACFrechet estimate_ is set and n_iter_ is 0.
C7_MaxIterZero ==
    (AFitEnded /\ aac.max_iter = 0)
    => /\ afit.logged = 1
       /\ afit.pc = "returned"
       /\ afit.raised = ""
       /\ aac.cls = "AACFrechet" =>
              aac.estimate_ # None /\ aac.n_iter_ = Some(0)

\* C8: the warning is logged exactly when the loop ends at
\* iteration = max_iter with the progress signal still above epsilon; a fit
\* whose signal fell to epsilon or below logs none; either way the fit
\* returns and raises nothing.
C8_WarningIffNotConverged ==
    AFitEnded
    => /\ afit.logged = 1 <=>
              (afit.iteration = aac.max_iter /\ afit.error > aac.epsilon)
       /\ afit.error <= aac.epsilon => afit.logged = 0
       /\ afit.logged <= 1
       /\ afit.pc = "returned"

\* C9: with init_point supplied, every fit of AACFrechet over the same
\* dataset ends the same way, with the same estimate_ and the same n_iter_,
\* on the same estimator or on a fresh one of equal configuration, and the
\* random generator is never drawn from.
C9_DeterministicWithInitPoint ==
    (aac.cls = "AACFrechet" /\ aac.init_point # None)
    => /\ rng = 0
       /\ \A i, j \in 1..Len(results) : results[i] = results[j]

\* Two fits with init_point supplied have returned, each after two rounds
\* of the loop, with an estimate that is not the initial point.
C9_Witness ==
    /\ aac.cls = "AACFrechet"
    /\ aac.init_point # None
    /\ Len(results) = 2
    /\ results[1].raised = "" /\ results[2].raised = ""
    /\ results[1].n_iter_ = Some(2)
    /\ results[1].estimate_ # aac.init_point
    /\ results[2] = results[1]
    /\ \E i \in 1..Len(dataset) : dataset[i] # dataset[1]

(***************************************************************************)
(* Properties of the four estimators, checked under SpecEstimators.        *)
(***************************************************************************)
\* C15: after fit has returned, the estimator has an attribute n_iter_,
\* equal to the number of rounds of the loop that fit executed.
C15_IterationCountExposed ==
    /\ afit.pc = "returned" =>
           HasAttr(aac, "n_iter_") /\ aac.n_iter_ = Some(afit.iteration)
    /\ wfit.pc = "returned" =>
           HasAttr(weiszfeld, "n_iter_") /\ weiszfeld.n_iter_ = Some(wfit.iter)

\* A step that replaces the estimator by a fresh one.
Constructs == afit.pc = "returned" /\ afit'.pc = "idle"

C19_FullMaxIterRounds ==
    wfit.pc \in {"returned", "raised"}
    => /\ wfit.pc = "returned"
       /\ si.calls = weiszfeld.max_iter
       /\ weiszfeld.estimate_ = Some(wfit.current_median)
       /\ weiszfeld.max_iter >= 1 => weiszfeld.estimate_ = Some(si.value)

\* C20: when single_iteration reaches the step weights / dists, every
\* sample is at a nonzero distance from current_median.
C20_NoDivisionByZeroDistance ==
    (si.op # "none" /\ "divide" \in si.ops)
    => \A i \in 1..Len(si.X) : dist(si.current_median, si.X)[i] # 0

(***************************************************************************)
(* More properties of the permutation actions, checked under SpecPerm.     *)
(***************************************************************************)
\* r is the index inversion of the permutation vector g: r[g[i]] = i.
IndexInversion(g, r) ==
    /\ Len(r) = Len(g)
    /\ \A i \in 1..Len(g) : r[g[i] + 1] = i - 1

\* C26: for a permutation vector g the result r of inverse_element has
\* r[g[i]] = i for every i; for a batch, row k of the result is the inverse
\* of row k of the input alone; the input is left as it was.
C26_IndexInversion ==
    gcall.op = "inverse_element"
    => /\ gcall.after = gcall.group_elem
       /\ gret.ndim = gcall.group_elem.ndim
       /\ IF gcall.group_elem.ndim = 1
          THEN /\ IndexInversion(gcall.group_elem.data, gret.data)
               /\ gret.data
                      = inverse_element_single_run(gcall.group_elem.data).inverse_group_elem
          ELSE /\ Len(gret.data) = Len(gcall.group_elem.data)
               /\ \A k \in 1..Len(gret.data) :
                      /\ IndexInversion(gcall.group_elem.data[k], gret.data[k])
                      /\ gret.data[k]
                             = inverse_element([ndim |-> 1,
                                                data |-> gcall.group_elem.data[k]]).data

\* The inverse of a batch of two different permutations, neither its own
\* inverse.
C26_Witness ==
    /\ gcall.op = "inverse_element"
    /\ gcall.group_elem.ndim = 2
    /\ Len(gcall.group_elem.data) >= 2
    /\ gcall.group_elem.data[1] # gcall.group_elem.data[2]
    /\ gret.data[1] # gcall.group_elem.data[1]
    /\ gret.data[2] # gcall.group_elem.data[2]
    /\ gcall.after = gcall.group_elem

(***************************************************************************)
(* The stopping rule of the alignment-based estimators, checked under      *)
(* SpecAAC.                                                                *)
(***************************************************************************)
\* A fit of AACFrechet or of AACRegression is at its loop or has ended.
DistanceFit ==
    /\ aac.cls \in {"AACFrechet", "AACRegression"}
    /\ afit.pc \in {"loop", "returned", "raised"}

\* The index of the first signal that is <= epsilon, or max_iter if the
\* first max_iter signals are all > epsilon.
FirstWithin(signals, epsilon, max_iter) ==
    LET within == {i \in 1..Len(signals) : signals[i] <= epsilon}
    IN  IF within = {} THEN max_iter
        ELSE CHOOSE i \in within : \A j \in within : i <= j

\* The fit runs another iteration exactly when the last signal is > epsilon
\* and iteration < max_iter, and otherwise ends.
IteratesIffSignalAbove ==
    [][(DistanceFit /\ afit.pc = "loop")
       => LET last == IF afit.signals = <<>>
                      THEN FAdd(aac.epsilon, One)
                      ELSE afit.signals[Len(afit.signals)]
              goes_on == last > aac.epsilon /\ afit.iteration < aac.max_iter
          IN  /\ goes_on => /\ afit'.pc = "loop"
                            /\ afit'.iteration = afit.iteration + 1
                            /\ Len(afit'.signals) = afit'.iteration
              /\ ~goes_on => /\ afit'.pc \in {"returned", "raised"}
                             /\ afit'.iteration = afit.iteration
                             /\ afit'.signals = afit.signals]_varsAAC

\* The original statement of C21: with max_iter >= 1 a fit of AACFrechet or
\* AACRegression that has ended ran at least one iteration, and its
\* iteration count is the index of the first signal <= epsilon, or max_iter.
C21_AtLeastOneIteration ==
    (DistanceFit /\ afit.pc # "loop" /\ aac.max_iter >= 1)
    => /\ afit.iteration >= 1
       /\ afit.iteration = FirstWithin(afit.signals, aac.epsilon, aac.max_iter)

\* C21: AACFrechet.fit and AACRegression.fit run another iteration iff the
\* last signal is > epsilon and iteration < max_iter; when epsilon + 1.0 is
\* greater than epsilon in floating point and max_iter >= 1 at least one
\* iteration runs and the final count is the index of the first signal
\* <= epsilon, or max_iter; when epsilon + 1.0 rounds to epsilon no
\* iteration runs.
C21_LoopRule ==
    /\ [](DistanceFit /\ afit.pc # "loop"
          => IF FAdd(aac.epsilon, One) > aac.epsilon
             THEN /\ aac.max_iter >= 1 => afit.iteration >= 1
                  /\ afit.iteration
                         = FirstWithin(afit.signals, aac.epsilon, aac.max_iter)
             ELSE afit.iteration = 0)
    /\ IteratesIffSignalAbove

\* A fit that ended before max_iter, on the first signal <= epsilon.
C21_Witness ==
    /\ DistanceFit
    /\ afit.pc = "returned"
    /\ FAdd(aac.epsilon, One) > aac.epsilon
    /\ afit.iteration >= 1
    /\ afit.iteration < aac.max_iter
    /\ afit.signals[afit.iteration] <= aac.epsilon

\* C22: AACGPC.fit stops on the absolute value of its signal: a fit that has
\* ended before max_iter iterations ended on a change of the explained-
\* variance ratio whose absolute value is <= epsilon, so a decrease of the
\* ratio by more than epsilon does not end the loop.
C22_StopsOnAbsoluteChange ==
    (/\ aac.cls = "AACGPC"
     /\ afit.pc = "returned"
     /\ afit.iteration >= 1
     /\ afit.iteration < aac.max_iter)
    => FAbs(afit.signals[afit.iteration]) <= aac.epsilon

\* The steps of AACFrechet.fit: where the loop starts from, what a round
\* computes from what, and what the end of fit publishes.
FrechetSteps ==
    [][aac.cls = "AACFrechet"
       => /\ (afit.pc # "loop" /\ afit'.pc = "loop")
             => /\ afit'.aligned_X = dataset
                /\ IF aac.init_point # None
                   THEN afit'.previous = aac.init_point[1]
                   ELSE \E k \in 1..Len(dataset) : afit'.previous = dataset[k]
          /\ (afit.pc = "loop" /\ afit'.iteration = afit.iteration + 1)
             => LET aligned == align_point_to_point(afit.previous, afit.aligned_X)
                    mean    == frechet_mean(aligned)
                IN  /\ afit'.aligned_X = aligned
                    /\ afit'.new_estimate = Some(mean)
                    /\ afit'.error = total_space_dist(afit.previous, mean)
                    /\ afit'.previous = mean
          /\ (afit.pc = "loop" /\ afit'.pc = "returned")
             => aac'.estimate_ = afit.new_estimate]_varsAAC

\* C24: each iteration of AACFrechet.fit aligns the sample set of the
\* previous iteration (X on the first) to the current reference, refits the
\* mean on it, takes the total-space distance between the current reference
\* and the new mean as the error, then makes the new mean the reference; the
\* first reference is init_point when supplied and otherwise an element of
\* X; the estimate_ that fit publishes is the mean of the last iteration.
C24_IterationOrder ==
    /\ FrechetSteps
    /\ [](aac.cls = "AACFrechet" /\ afit.pc = "returned"
          => /\ afit.iteration >= 1
             /\ aac.estimate_ = Some(afit.previous)
             /\ aac.estimate_ = Some(frechet_mean(afit.aligned_X))
             /\ afit.error = afit.signals[afit.iteration])

\* A fit without init_point that returned after two iterations, the first
\* of which moved the reference and changed the sample set.
C24_Witness ==
    /\ aac.cls = "AACFrechet"
    /\ afit.pc = "returned"
    /\ aac.init_point = None
    /\ afit.iteration = 2
    /\ afit.signals[1] > 0
    /\ afit.aligned_X # dataset
    /\ aac.estimate_ = Some(afit.previous)

(***************************************************************************)
(* The values of a geodesic path, checked under SpecMetric.                *)
(***************************************************************************)
\* The element of the array of points a, a point or a batch of points, at
\* position j of point number bi.
ElemOf(a, bi, j) ==
    IF ndim(a) > metric.space.point_ndim
    THEN a.data[(bi * Prod(metric.space.shape)) + j + 1]
    ELSE a.data[j + 1]

\* The element of what path returned for point number bi of the batch, at
\* time number n, at position j of the point.
PathElem(bi, n, j) ==
    heap.mem[mcall.ret].data[
        (((bi * mcall.args[1].shape[1]) + n) * Prod(metric.space.shape)) + j + 1]

\* path has returned; Holds(bi, n, j, ip, q, v, t) is true of every element
\* of the result, where ip, q and v are the elements of initial_point,
\* end_point and initial_tangent_vec it comes from (the one of q and v that
\* was not given is NAN) and t is the time.
PathElements(Holds(_, _, _, _)) ==
    (mcall.op = "path" /\ mcall.raised = "")
    => \A bi \in 0..(Prod(GivenBatch) - 1),
          n \in 0..(mcall.args[1].shape[1] - 1),
          j \in 0..(Prod(metric.space.shape) - 1) :
         Holds(PathElem(bi, n, j),
               ElemOf(closure.given[1], bi, j),
               IF closure.given[2] # NoneArray
               THEN <<"end_point", ElemOf(closure.given[2], bi, j)>>
               ELSE <<"initial_tangent_vec", ElemOf(closure.given[3], bi, j)>>,
               mcall.args[1].data[n + 1])

\* path(t) is initial_point + t * (q - initial_point), resp.
\* initial_point + t * v, each operation rounded.
PathFormula(x, ip, other, t) ==
    x = FAdd(ip, FMul(t, IF other[1] = "end_point"
                         THEN FSub(other[2], ip) ELSE other[2]))

\* path(0) is initial_point; path(1) is exp(v, initial_point).
PathEnds(x, ip, other, t) ==
    /\ t = 0 => x = ip
    /\ (t = One /\ other[1] = "initial_tangent_vec") => x = FAdd(ip, other[2])

\* path(1) is end_point.
PathReachesEndPoint(x, ip, other, t) ==
    (t = One /\ other[1] = "end_point") => x = other[2]

\* path(1) is end_point where end_point - initial_point is computed
\* without rounding.
PathReachesEndPointWhenExact(x, ip, other, t) ==
    (t = One /\ other[1] = "end_point" /\ ExactAdd(other[2], FNeg(ip)))
    => x = other[2]

\* C25, as stated: the path of geodesic(initial_point, end_point=q) is
\* initial_point + t * (q - initial_point), with path(0) == initial_point
\* and path(1) == q; the path of geodesic(initial_point,
\* initial_tangent_vec=v) is initial_point + t * v, with
\* path(1) == exp(v, initial_point).
C25_PathEndsAtEndPoint ==
    /\ PathElements(PathFormula)
    /\ PathElements(PathEnds)
    /\ PathElements(PathReachesEndPoint)

\* C25, amended: as stated, but path(1) == q only where the difference
\* q - initial_point is computed without rounding.
C25_PathValues ==
    /\ PathElements(PathFormula)
    /\ PathElements(PathEnds)
    /\ PathElements(PathReachesEndPointWhenExact)

\* The path between a batch of initial points and an end point different
\* from them, with exact differences, called at the times 1.0 and 0.0.
C25_Witness ==
    /\ mcall.op = "path"
    /\ mcall.raised = ""
    /\ closure.given[2] # NoneArray
    /\ ndim(closure.given[1]) > metric.space.point_ndim
    /\ closure.given[1].shape[1] >= 2
    /\ mcall.args[1].data = <<One, 0>>
    /\ \A bi \in 0..(Prod(GivenBatch) - 1),
          j \in 0..(Prod(metric.space.shape) - 1) :
         /\ ExactAdd(ElemOf(closure.given[2], bi, j),
                     FNeg(ElemOf(closure.given[1], bi, j)))
         /\ PathElem(bi, 0, j) = ElemOf(closure.given[2], bi, j)
         /\ PathElem(bi, 1, j) = ElemOf(closure.given[1], bi, j)
    /\ \E j \in 0..(Prod(metric.space.shape) - 1) :
         PathElem(0, 0, j) # PathElem(0, 1, j)

(***************************************************************************)
(* Termination of the fit loops, checked under SpecEstimators.             *)
(***************************************************************************)
\* C23: the loops of AACFrechet.fit, AACGPC.fit, AACRegression.fit and
\* WeiszfeldAlgorithm.fit run at most max_iter iterations, the counter
\* never exceeds max_iter, and a fit that has left its loop has returned.
C23_FitLoopsReturn ==
    /\ afit.iteration <= aac.max_iter
    /\ Len(afit.signals) = afit.iteration
    /\ wfit.iter <= weiszfeld.max_iter
    /\ afit.pc \in {"idle", "loop", "returned"}
    /\ wfit.pc \in {"idle", "loop", "returned"}

====
